---- MODULE Spec2Model ----
(***************************************************************************)
(* Verification model of zltrace: the global tracer registry, the layered  *)
(* configuration loader (config.go), the kafka-go header carriers, the     *)
(* Tracer and Span implementations (OpenTelemetry-backed, NoOp, test mock) *)
(* and the adapters built on them (kafka.go, httpadapter).                 *)
(*                                                                         *)
(* The module holds several independent state machines.  Each has its own  *)
(* specification (SpecRegistry, SpecConfig, SpecValidate, SpecCarrier,     *)
(* SpecTracer, SpecAdapter); a specification leaves the variables of the   *)
(* other machines untouched.                                               *)
(***************************************************************************)
EXTENDS Integers, Sequences, FiniteSets, TLC

VARIABLES
    globalTracer,   \* tracer.go: var globalTracer Tracer
    callLog,        \* history of registry calls: <<[op, arg, ret], ...>>
    fs,             \* file system: path -> content id
    env,            \* process environment read by config.go
    loadResult,     \* what ConfigLoader.Load returned, NotLoaded before the call
    vcfg,           \* argument handed to validateConfig
    verr,           \* what validateConfig returned for vcfg
    carrierKind,    \* which kafka-go carrier wraps the header list
    headers0,       \* the header list when the carrier was built
    headers,        \* the header list now (msg.Headers)
    opLog,          \* history of carrier calls: <<[op, key, value, ret, found], ...>>
    spans,          \* the spans started so far, in order; a Span is its index
    ctxs,           \* the contexts the caller holds
    apiLog,         \* history of tracer, span and adapter calls
    mu,             \* tracer.go: var globalTracerMu sync.RWMutex
    procs           \* the goroutines calling the registry: where each one is

registryVars == <<globalTracer, callLog>>
configVars   == <<fs, env, loadResult>>
validateVars == <<vcfg, verr>>
carrierVars  == <<carrierKind, headers0, headers, opLog>>
traceVars    == <<spans, ctxs, apiLog>>
lockVars     == <<mu, procs>>
vars == <<globalTracer, callLog, fs, env, loadResult, vcfg, verr,
          carrierKind, headers0, headers, opLog, spans, ctxs, apiLog, mu, procs>>

(***************************************************************************)
(* Bounds of the model.                                                    *)
(***************************************************************************)
MaxCalls   == 4    \* registry calls in one behaviour
MaxSetup   == 2    \* files written plus environment facts changed before Load
MaxHeaders == 2    \* length of the initial kafka header list
MaxOps     == 3    \* carrier calls in one behaviour
MaxApi     == 3    \* tracer and span calls in one behaviour
MaxHTTPOps == 2    \* Set and Get calls on an HTTP carrier in one behaviour
NumProcs   == 3    \* goroutines calling the registry, one call each

(***************************************************************************)
(* Tracer registry                                                         *)
(***************************************************************************)
Nil == "nil"                       \* the nil Tracer interface value
NoOpTracer == "noOpTracer"         \* &noOpTracer{}
Tracers == {"otelTracer", "mockTracer"}
TracerArgs == Tracers \cup {Nil}

RegisterTracer_KeepOnNil(tracer) ==
    globalTracer' = IF tracer = Nil THEN globalTracer ELSE tracer

\* RegisterTracer: globalTracer = tracer (under globalTracerMu.Lock)
RegisterTracer(tracer) == globalTracer' = tracer

\* GetTracer: return globalTracer (under globalTracerMu.RLock)
GetTracer == globalTracer

GetSafeTracer_NoNilCheck == GetTracer

\* GetSafeTracer: the registered tracer, or a noOpTracer when it is nil
GetSafeTracer ==
    LET tracer == GetTracer
    IN  IF tracer = Nil THEN NoOpTracer ELSE tracer

RegistryInit ==
    /\ globalTracer = Nil
    /\ callLog = <<>>

RegisterTracerCall ==
    /\ Len(callLog) < MaxCalls
    /\ \E t \in TracerArgs :
          /\ RegisterTracer(t)
          /\ callLog' = Append(callLog, [op |-> "RegisterTracer", arg |-> t, ret |-> Nil])

GetTracerCall ==
    /\ Len(callLog) < MaxCalls
    /\ callLog' = Append(callLog, [op |-> "GetTracer", arg |-> Nil, ret |-> GetTracer])
    /\ UNCHANGED globalTracer

GetSafeTracerCall ==
    /\ Len(callLog) < MaxCalls
    /\ callLog' = Append(callLog, [op |-> "GetSafeTracer", arg |-> Nil, ret |-> GetSafeTracer])
    /\ UNCHANGED globalTracer

(***************************************************************************)
(* kafka-go header carriers (tracer/kafkagotracer/kafka.go)                *)
(*                                                                         *)
(* A header list is a sequence of [Key, Value] records; keys may repeat.   *)
(* A Go string and the []byte made from it hold the same bytes, so a value *)
(* is modelled by one token for both.                                      *)
(***************************************************************************)
HeaderKeys   == {"traceparent", "other"}
HeaderValues == {"v1", "v2"}
Header(k, v) == [Key |-> k, Value |-> v]
AllHeaders   == {Header(k, v) : k \in HeaderKeys, v \in HeaderValues}

RECURSIVE SeqsUpTo(_, _)
SeqsUpTo(S, n) ==
    IF n = 0 THEN {<<>>}
    ELSE LET shorter == SeqsUpTo(S, n - 1)
         IN  shorter \cup {Append(q, x) : q \in {r \in shorter : Len(r) = n - 1}, x \in S}

\* index of the first entry of hs whose key is key, 0 when there is none:
\* the "for i, header := range" scan both carriers use
FirstIndex(hs, key) ==
    IF \E i \in 1..Len(hs) : hs[i].Key = key
    THEN CHOOSE i \in 1..Len(hs) :
            /\ hs[i].Key = key
            /\ \A j \in 1..(i - 1) : hs[j].Key # key
    ELSE 0

ProducerSet_AlwaysAppend(hs, key, value) == Append(hs, Header(key, value))

\* kafkaProducerHeaderCarrier.Set: overwrite the first match in place, else append
ProducerSet(hs, key, value) ==
    LET i == FirstIndex(hs, key)
    IN  IF i # 0
        THEN [hs EXCEPT ![i].Value = value]
        ELSE Append(hs, Header(key, value))

\* kafkaProducerHeaderCarrier.Get: value of the first match
ProducerGet(hs, key) ==
    LET i == FirstIndex(hs, key)
    IN  IF i # 0 THEN [value |-> hs[i].Value, found |-> TRUE]
        ELSE [value |-> "", found |-> FALSE]

ConsumerSet_LikeProducer(hs, key, value) == ProducerSet(hs, key, value)

\* kafkaConsumerHeaderCarrier.Set: empty body
ConsumerSet(hs, key, value) == hs

ConsumerGet_LastMatch(hs, key) ==
    IF \E i \in 1..Len(hs) : hs[i].Key = key
    THEN LET i == CHOOSE i \in 1..Len(hs) :
                     /\ hs[i].Key = key
                     /\ \A j \in (i + 1)..Len(hs) : hs[j].Key # key
         IN  [value |-> hs[i].Value, found |-> TRUE]
    ELSE [value |-> "", found |-> FALSE]

\* kafkaConsumerHeaderCarrier.Get: value of the first match
ConsumerGet(hs, key) ==
    LET i == FirstIndex(hs, key)
    IN  IF i # 0 THEN [value |-> hs[i].Value, found |-> TRUE]
        ELSE [value |-> "", found |-> FALSE]

SetEntry(k, v) == [op |-> "Set", key |-> k, value |-> v, ret |-> "", found |-> FALSE]
GetEntry(k, r) == [op |-> "Get", key |-> k, value |-> "", ret |-> r.value, found |-> r.found]

CarrierInit ==
    /\ carrierKind \in {"producer", "consumer"}
    /\ headers0 \in SeqsUpTo(AllHeaders, MaxHeaders)
    /\ headers = headers0
    /\ opLog = <<>>

ProducerSetCall ==
    /\ carrierKind = "producer"
    /\ Len(opLog) < MaxOps
    /\ \E k \in HeaderKeys, v \in HeaderValues :
          /\ headers' = ProducerSet(headers, k, v)
          /\ opLog' = Append(opLog, SetEntry(k, v))
    /\ UNCHANGED <<carrierKind, headers0>>

ProducerGetCall ==
    /\ carrierKind = "producer"
    /\ Len(opLog) < MaxOps
    /\ \E k \in HeaderKeys :
          opLog' = Append(opLog, GetEntry(k, ProducerGet(headers, k)))
    /\ UNCHANGED <<carrierKind, headers0, headers>>

ConsumerSetCall ==
    /\ carrierKind = "consumer"
    /\ Len(opLog) < MaxOps
    /\ \E k \in HeaderKeys, v \in HeaderValues :
          /\ headers' = ConsumerSet(headers, k, v)
          /\ opLog' = Append(opLog, SetEntry(k, v))
    /\ UNCHANGED <<carrierKind, headers0>>

ConsumerGetCall ==
    /\ carrierKind = "consumer"
    /\ Len(opLog) < MaxOps
    /\ \E k \in HeaderKeys :
          opLog' = Append(opLog, GetEntry(k, ConsumerGet(headers, k)))
    /\ UNCHANGED <<carrierKind, headers0, headers>>

(***************************************************************************)
(* Configuration loader (config.go)                                        *)
(*                                                                         *)
(* A parsed YAML document (a viper instance after ReadInConfig) is a       *)
(* function from key paths to leaf values: trace.exporter.type is the path *)
(* <<"trace", "exporter", "type">>.  A file path is the pair               *)
(* <<directory, file name>> that filepath.Join puts together.              *)
(***************************************************************************)
NoErr == "nil"
ErrRead == "failed to read config file"
ErrExporterType == "invalid exporter type"
ErrEndpoint == "trace.exporter.otlp.endpoint is required when exporter type is otlp"

NilConfig == [nil |-> TRUE]          \* the nil *TraceConfig
NotLoaded == [pending |-> TRUE]      \* Load has not been called yet

\* NewConfigLoader: configDirs = {".", "resource"}
configDirs == <<".", "resource">>
\* NewConfigLoader: envName = detectEnv(), "dev" when no environment variable names one
envName == "dev"
\* fmt.Sprintf("application_%s.yaml", l.envName)
appEnvFile == "application_dev.yaml"

Join(dir, name) == <<dir, name>>
NoPath     == <<>>                               \* os.Getenv gave ""
CustomPath == <<"/opt/app", "custom-trace.yaml">>   \* a value of $ZLTRACE_CONFIG
EtcPath    == <<"/etc/zltrace", "config.yaml">>
FileNames  == {"trace.yaml", "application.yaml", appEnvFile, "zltrace.yaml"}
AllPaths   == {Join(configDirs[i], n) : i \in 1..Len(configDirs), n \in FileNames}
                 \cup {CustomPath, EtcPath}

Absent    == "absent"        \* os.Stat: not exist
Malformed == "malformed"     \* the file is there, viper.ReadInConfig fails

K(a)       == <<a>>
K2(a, b)   == <<a, b>>
K3(a, b, c) == <<a, b, c>>
K4(a, b, c, d) == <<a, b, c, d>>

\* the documents the model's files can hold
DocOf(id) ==
    CASE id = "rootOtlp" ->
            K("enabled") :> TRUE @@ K("service_name") :> "orders-svc"
            @@ K2("sampler", "type") :> "never" @@ K2("sampler", "ratio") :> 0
            @@ K2("exporter", "type") :> "otlp"
            @@ K3("exporter", "otlp", "endpoint") :> "collector:4317"
            @@ K3("exporter", "otlp", "timeout") :> 30
            @@ K3("exporter", "otlp", "insecure") :> FALSE
            @@ K2("exporter", "max_queue_size") :> 100
            @@ K2("batch", "batch_size") :> 16 @@ K2("batch", "timeout") :> 1
            @@ K2("batch", "max_queue_size") :> 64
      [] id = "rootBadType" ->
            K2("exporter", "type") :> "kafka"
      [] id = "rootNoName" ->
            K2("exporter", "type") :> "none"
      [] id = "legacy" ->
            K2("trace", "enabled") :> FALSE @@ K2("trace", "service_name") :> "legacy-svc"
            @@ K3("trace", "sampler", "type") :> "never" @@ K3("trace", "sampler", "ratio") :> 0
            @@ K3("trace", "exporter", "type") :> "otlp"
            @@ K4("trace", "exporter", "otlp", "endpoint") :> "skywalking:4317"
            @@ K4("trace", "exporter", "otlp", "timeout") :> 20
            @@ K4("trace", "exporter", "otlp", "insecure") :> FALSE
            @@ K3("trace", "exporter", "max_queue_size") :> 200
            @@ K3("trace", "batch", "batch_size") :> 32 @@ K3("trace", "batch", "timeout") :> 2
            @@ K3("trace", "batch", "max_queue_size") :> 128
      [] id = "appNoName" ->
            K2("app", "name") :> "shop" @@ K3("trace", "exporter", "type") :> "none"
      [] id = "appPlain" ->
            K3("trace", "sampler", "type") :> "parent_based"
      [] id = "appBadOtlp" ->
            K3("trace", "exporter", "type") :> "otlp"
            @@ K4("trace", "exporter", "otlp", "endpoint") :> ""
      [] id = "appOnly" ->
            K2("app", "name") :> "shop"

DocIds   == {"rootOtlp", "rootBadType", "rootNoName", "legacy",
             "appNoName", "appPlain", "appBadOtlp", "appOnly"}
Contents == DocIds \cup {Malformed}

\* viper.IsSet: the key holds a value or a nested section
IsSet(v, key) ==
    \E k \in DOMAIN v : Len(k) >= Len(key) /\ SubSeq(k, 1, Len(key)) = key

\* viper.GetString / GetBool / GetInt / GetFloat64 on a key that holds a leaf
Get(v, key) == v[key]

\* os.Executable / os.Getwd outcomes the model tries
ExeErr == "os.Executable: error"
ExeNames == {"orders.exe", "main", ExeErr}
CwdNames == {"proj", "/"}

\* strings.TrimSuffix(name, ".exe") on the names above
TrimSuffixExe(name) == IF name = "orders.exe" THEN "orders" ELSE name

detectServiceName_AppNameFirst ==
    IF env.APP_NAME # "" THEN env.APP_NAME
    ELSE IF env.SERVICE_NAME # "" THEN env.SERVICE_NAME
    ELSE "zltrace"

\* detectServiceName: SERVICE_NAME > APP_NAME > executable > working directory > "zltrace"
detectServiceName ==
    IF env.SERVICE_NAME # "" THEN env.SERVICE_NAME
    ELSE IF env.APP_NAME # "" THEN env.APP_NAME
    ELSE LET name == TrimSuffixExe(env.exe)
         IN  IF env.exe # ExeErr /\ name # "" /\ name # "go" /\ name # "main"
             THEN name
             ELSE IF env.cwd # "" /\ env.cwd # "/" /\ env.cwd # "."
                  THEN env.cwd
                  ELSE "zltrace"

getDefaultConfig_NoneExporter ==
    [Enabled |-> TRUE,
     ServiceName |-> detectServiceName,
     Sampler |-> [Type |-> "always_on", Ratio |-> 1],
     Exporter |-> [Type |-> "none", MaxQueueSize |-> 2048,
                   OTLP |-> [Endpoint |-> "localhost:4317", Timeout |-> 10,
                             Insecure |-> TRUE]],
     Batch |-> [BatchSize |-> 512, Timeout |-> 5, MaxQueueSize |-> 2048]]

\* ConfigLoader.getDefaultConfig
getDefaultConfig ==
    [Enabled |-> TRUE,
     ServiceName |-> detectServiceName,
     Sampler |-> [Type |-> "always_on", Ratio |-> 1],
     Exporter |-> [Type |-> "stdout", MaxQueueSize |-> 2048,
                   OTLP |-> [Endpoint |-> "localhost:4317", Timeout |-> 10,
                             Insecure |-> TRUE]],
     Batch |-> [BatchSize |-> 512, Timeout |-> 5, MaxQueueSize |-> 2048]]

validateConfig_IgnoreEnabled(config) ==
    IF config.Exporter.Type \notin {"otlp", "stdout", "none"} THEN ErrExporterType
    ELSE IF config.Exporter.Type = "otlp" /\ config.Exporter.OTLP.Endpoint = ""
         THEN ErrEndpoint
         ELSE NoErr

\* validateConfig
validateConfig(config) ==
    IF ~config.Enabled THEN NoErr
    ELSE IF config.Exporter.Type \notin {"otlp", "stdout", "none"} THEN ErrExporterType
    ELSE IF config.Exporter.Type = "otlp" /\ config.Exporter.OTLP.Endpoint = ""
         THEN ErrEndpoint
         ELSE NoErr

\* a (*TraceConfig, error) pair
Ret(config, err) == [cfg |-> config, err |-> err]
\* the pair together with the path of the file it was read from (bookkeeping
\* of the model; the code does not keep it)
From(r, path) == [cfg |-> r.cfg, err |-> r.err, src |-> path]
DefaultSrc == <<"built-in defaults">>

\* the "if v.IsSet(key) { field = v.Get(key) }" idiom of both parsers
Over(v, key, old) == IF IsSet(v, key) THEN Get(v, key) ELSE old

\* the overrides both parsers apply, pre being <<>> for the direct format and
\* <<"trace">> for the application.yaml format
Overrides(v, pre, config) ==
    [config EXCEPT
        !.Enabled = Over(v, pre \o K("enabled"), @),
        !.Sampler.Type = Over(v, pre \o K2("sampler", "type"), @),
        !.Sampler.Ratio = Over(v, pre \o K2("sampler", "ratio"), @),
        !.Exporter.Type = Over(v, pre \o K2("exporter", "type"), @),
        !.Exporter.OTLP.Endpoint = Over(v, pre \o K3("exporter", "otlp", "endpoint"), @),
        !.Exporter.OTLP.Timeout = Over(v, pre \o K3("exporter", "otlp", "timeout"), @),
        !.Exporter.OTLP.Insecure = Over(v, pre \o K3("exporter", "otlp", "insecure"), @),
        !.Exporter.MaxQueueSize = Over(v, pre \o K2("exporter", "max_queue_size"), @),
        !.Batch.BatchSize = Over(v, pre \o K2("batch", "batch_size"), @),
        !.Batch.Timeout = Over(v, pre \o K2("batch", "timeout"), @),
        !.Batch.MaxQueueSize = Over(v, pre \o K2("batch", "max_queue_size"), @)]

\* validate, and hand back (nil, err) or (config, nil)
Validated(config) ==
    LET err == validateConfig(config)
    IN  IF err # NoErr THEN Ret(NilConfig, err) ELSE Ret(config, NoErr)

\* ConfigLoader.parseTraceConfig: the direct format, keys at the document root
parseTraceConfig(v) ==
    LET serviceName == IF IsSet(v, K("service_name")) THEN Get(v, K("service_name"))
                       ELSE detectServiceName
        config == Overrides(v, <<>>, [getDefaultConfig EXCEPT !.ServiceName = serviceName])
    IN  Validated(config)

\* ConfigLoader.parseAppTraceConfig: keys under "trace", service name from app.name
parseAppTraceConfig(v) ==
    LET serviceName == IF IsSet(v, K2("app", "name")) THEN Get(v, K2("app", "name"))
                       ELSE detectServiceName
        named  == [getDefaultConfig EXCEPT !.ServiceName = serviceName]
        config == [Overrides(v, K("trace"), named) EXCEPT
                      !.ServiceName = Over(v, K2("trace", "service_name"), @)]
    IN  Validated(config)

\* ConfigLoader.loadFromTraceYAMLFile
loadFromTraceYAMLFile(configPath) ==
    IF fs[configPath] = Absent THEN From(Ret(NilConfig, NoErr), configPath)
    ELSE IF fs[configPath] = Malformed THEN From(Ret(NilConfig, ErrRead), configPath)
    ELSE From(parseTraceConfig(DocOf(fs[configPath])), configPath)

\* ConfigLoader.loadFromTraceYAML, the loop from directory i on
RECURSIVE loadFromTraceYAMLAt(_)
loadFromTraceYAMLAt(i) ==
    IF i > Len(configDirs) THEN From(Ret(NilConfig, NoErr), NoPath)
    ELSE LET r == loadFromTraceYAMLFile(Join(configDirs[i], "trace.yaml"))
         IN  IF r.err # NoErr THEN From(Ret(NilConfig, r.err), r.src)
             ELSE IF r.cfg # NilConfig THEN r
             ELSE loadFromTraceYAMLAt(i + 1)

\* ConfigLoader.loadFromTraceYAML
loadFromTraceYAML == loadFromTraceYAMLAt(1)

\* ConfigLoader.loadFromAppYAML, the loop from directory i on
RECURSIVE loadFromAppYAMLAt(_, _)
loadFromAppYAMLAt(filename, i) ==
    IF i > Len(configDirs) THEN From(Ret(NilConfig, NoErr), NoPath)
    ELSE LET configPath == Join(configDirs[i], filename)
         IN  IF fs[configPath] = Absent THEN loadFromAppYAMLAt(filename, i + 1)
             ELSE IF fs[configPath] = Malformed THEN loadFromAppYAMLAt(filename, i + 1)
             ELSE IF ~IsSet(DocOf(fs[configPath]), K("trace"))
                  THEN loadFromAppYAMLAt(filename, i + 1)
             ELSE LET r == From(parseAppTraceConfig(DocOf(fs[configPath])), configPath)
                  IN  IF r.err # NoErr THEN From(Ret(NilConfig, r.err), configPath)
                      ELSE IF r.cfg # NilConfig THEN r
                      ELSE loadFromAppYAMLAt(filename, i + 1)

\* ConfigLoader.loadFromAppYAML
loadFromAppYAML(filename) == loadFromAppYAMLAt(filename, 1)

\* the test every step of Load applies to a loader's result
Took(r) == r.cfg # NilConfig /\ r.err = NoErr

\* Load, step 4: zltrace.yaml in each directory, from directory i on
RECURSIVE loadLegacyAt(_)
loadLegacyAt(i) ==
    IF i > Len(configDirs) THEN From(Ret(NilConfig, NoErr), NoPath)
    ELSE LET r == loadFromTraceYAMLFile(Join(configDirs[i], "zltrace.yaml"))
         IN  IF Took(r) THEN r ELSE loadLegacyAt(i + 1)

\* ConfigLoader.Load
Load ==
    LET r1 == loadFromTraceYAML
        r2 == loadFromAppYAML("application.yaml")
        r3 == loadFromAppYAML(appEnvFile)
        r4 == loadLegacyAt(1)
        r5 == loadFromTraceYAMLFile(env.ZLTRACE_CONFIG)
        r6 == loadFromTraceYAMLFile(EtcPath)
    IN  IF Took(r1) THEN r1
        ELSE IF Took(r2) THEN r2
        ELSE IF envName # "" /\ Took(r3) THEN r3
        ELSE IF Took(r4) THEN r4
        ELSE IF env.ZLTRACE_CONFIG # NoPath /\ Took(r5) THEN r5
        ELSE IF Took(r6) THEN r6
        ELSE From(Ret(getDefaultConfig, NoErr), DefaultSrc)

\* how far the set-up is from the baseline (no file, no variable set)
Deviations(f, e) ==
    Cardinality({p \in AllPaths : f[p] # Absent})
      + (IF e.SERVICE_NAME # "" THEN 1 ELSE 0)
      + (IF e.APP_NAME # "" THEN 1 ELSE 0)
      + (IF e.ZLTRACE_CONFIG # NoPath THEN 1 ELSE 0)
      + (IF e.exe # "orders.exe" THEN 1 ELSE 0)
      + (IF e.cwd # "proj" THEN 1 ELSE 0)

Envs == [SERVICE_NAME : {"", "checkout-api"}, APP_NAME : {"", "billing"},
         ZLTRACE_CONFIG : {NoPath, CustomPath}, exe : ExeNames, cwd : CwdNames]

\* the process starts under some executable name, in some directory, with
\* some variables exported, and with no configuration file written yet
ConfigInit ==
    /\ fs = [p \in AllPaths |-> Absent]
    /\ env \in {e \in Envs : Deviations(fs, e) <= MaxSetup}
    /\ loadResult = NotLoaded

\* a configuration file is deployed (or replaced) before the loader runs
WriteFile ==
    /\ loadResult = NotLoaded
    /\ \E p \in AllPaths, c \in Contents :
          /\ fs' = [fs EXCEPT ![p] = c]
          /\ Deviations(fs', env) <= MaxSetup
    /\ UNCHANGED <<env, loadResult>>

\* LoadConfig: NewConfigLoader().Load()
LoadConfig ==
    /\ loadResult = NotLoaded
    /\ loadResult' = Load
    /\ UNCHANGED <<fs, env>>

(***************************************************************************)
(* validateConfig on its own                                               *)
(***************************************************************************)
Pending == "pending"

ValidateInputs ==
    {[Enabled |-> en, ServiceName |-> sn,
      Sampler |-> [Type |-> st, Ratio |-> 1],
      Exporter |-> [Type |-> et, MaxQueueSize |-> 2048,
                    OTLP |-> [Endpoint |-> ep, Timeout |-> 10, Insecure |-> TRUE]],
      Batch |-> [BatchSize |-> 512, Timeout |-> 5, MaxQueueSize |-> 2048]] :
        en \in BOOLEAN, sn \in {"", "test"}, st \in {"always_on", "bogus"},
        et \in {"otlp", "stdout", "none", "invalid", ""},
        ep \in {"", "localhost:4317"}}

ValidateInit ==
    /\ vcfg \in ValidateInputs
    /\ verr = Pending

ValidateCall ==
    /\ verr = Pending
    /\ verr' = validateConfig(vcfg)
    /\ UNCHANGED vcfg

(***************************************************************************)
(* Contexts, spans and the Tracer implementations                          *)
(*                                                                         *)
(* A context.Context is the record of the two values this code base reads  *)
(* from it: sc, the OpenTelemetry span context (stored under the SDK's own *)
(* key by tracer.Start and by the propagator), and span, the zltrace Span  *)
(* stored under _spanKey by ContextWithSpan.  A Span is its index in the   *)
(* sequence of spans started so far; 0 is the nil Span.                    *)
(*                                                                         *)
(* A header value that is read as a traceparent is the sequence of its     *)
(* dash-separated fields: "00-ab-cd-01" is <<"00", "ab", "cd", "01">>.     *)
(***************************************************************************)
ZeroTraceID == "00000000000000000000000000000000"   \* trace.TraceID{}.String()
ZeroSpanID  == "0000000000000000"                   \* trace.SpanID{}.String()

NoSpan == 0
NilCtx == [nilctx |-> TRUE]                         \* the nil context.Context
NoSC   == [traceID |-> ZeroTraceID, spanID |-> ZeroSpanID, remote |-> FALSE]
Background == [sc |-> NoSC, span |-> NoSpan]        \* context.Background()

\* trace.SpanContext.IsValid
IsValid(sc) == sc.traceID # ZeroTraceID /\ sc.spanID # ZeroSpanID

\* SpanFromContext: ctx.Value(_spanKey).(Span), nil when nothing is stored
SpanFromContext(ctx) == ctx.span

ContextWithSpan_KeepFirst(ctx, span) ==
    IF ctx.span # NoSpan THEN ctx ELSE [ctx EXCEPT !.span = span]

\* ContextWithSpan: context.WithValue(ctx, _spanKey, span)
ContextWithSpan(ctx, span) == [ctx EXCEPT !.span = span]

\* identifiers the SDK's generator hands out, in the order it is asked
GenTraceID(n) ==
    <<"0af7651916cd43dd8448eb211c80319c", "1bf7651916cd43dd8448eb211c80319d",
      "2cf7651916cd43dd8448eb211c80319e", "3df7651916cd43dd8448eb211c80319f",
      "4ef7651916cd43dd8448eb211c8031a0", "5ff7651916cd43dd8448eb211c8031a1">>[n]
GenSpanID(n) ==
    <<"b7ad6b7169203331", "c8ad6b7169203332", "d9ad6b7169203333",
      "eaad6b7169203334", "fbad6b7169203335", "0cad6b7169203336">>[n]

TraceParentKey == "traceparent"
EmptyValue == <<"">>                                \* the fields of ""

\* propagation.TraceContext.Inject writes version-traceid-spanid-flags
FormatTraceParent(sc) == <<"00", sc.traceID, sc.spanID, "01">>

\* propagation.TraceContext.Extract accepts version 00 with exactly four
\* fields of 2, 32, 16 and 2 hex digits and non-zero identifiers
WellFormed(v) ==
    /\ Len(v) = 4
    /\ v[1] = "00"
    /\ Len(v[2]) = 32 /\ v[2] # ZeroTraceID
    /\ Len(v[3]) = 16 /\ v[3] # ZeroSpanID
    /\ Len(v[4]) = 2

\* textproto.CanonicalMIMEHeaderKey, which http.Header.Set, Get and Values
\* apply to the name: first letter and letters after a hyphen in upper case,
\* the rest in lower case
CanonicalMIMEHeaderKey(key) ==
    CASE key \in {"traceparent", "Traceparent", "TRACEPARENT"} -> "Traceparent"
      [] key \in {"other", "Other", "OTHER"}                   -> "Other"
      [] OTHER                                                 -> key

\* an http.Header is kept as the list of its (name, value) entries, names
\* in canonical form, the values of one name in their order
HTTPHeaderOf(hs) ==
    [i \in 1..Len(hs) |-> Header(CanonicalMIMEHeaderKey(hs[i].Key), hs[i].Value)]

HTTPSet_Add(hs, key, value) ==
    Append(hs, Header(CanonicalMIMEHeaderKey(key), value))

\* httpHeaderCarrier.Set: http.Header.Set leaves one value under the name
HTTPSet(hs, key, value) ==
    Append(SelectSeq(hs, LAMBDA h : h.Key # CanonicalMIMEHeaderKey(key)),
           Header(CanonicalMIMEHeaderKey(key), value))

\* httpHeaderCarrier.Get: the first of http.Header.Values(key), if any
HTTPGet(hs, key) ==
    LET i == FirstIndex(hs, CanonicalMIMEHeaderKey(key))
    IN  IF i # 0 THEN [value |-> hs[i].Value, found |-> TRUE]
        ELSE [value |-> "", found |-> FALSE]

\* ginHTTPHandler.GetHeader: gin's c.GetHeader is Request.Header.Get, the
\* first value under the name or ""
ginHTTPHandler_GetHeader(hs, key) ==
    LET i == FirstIndex(hs, CanonicalMIMEHeaderKey(key))
    IN  IF i # 0 THEN hs[i].Value ELSE EmptyValue

\* HTTPHeaderCarrier.Get: value := handler.GetHeader(key); value, value != ""
HTTPHeaderCarrier_Get(hs, key) ==
    [value |-> ginHTTPHandler_GetHeader(hs, key),
     found |-> ginHTTPHandler_GetHeader(hs, key) # EmptyValue]

\* HTTPHeaderCarrier.Set: the body is empty
HTTPHeaderCarrier_Set(hs, key, value) == hs

\* the Carrier behind the interface: Set and Get of the wrapped adapter
CarrierSet(kind, hs, key, value) ==
    CASE kind = "producer" -> ProducerSet(hs, key, value)
      [] kind = "consumer" -> ConsumerSet(hs, key, value)
      [] kind = "server"   -> HTTPHeaderCarrier_Set(hs, key, value)
      [] OTHER             -> HTTPSet(hs, key, value)

CarrierGet(kind, hs, key) ==
    CASE kind = "producer" -> ProducerGet(hs, key)
      [] kind = "consumer" -> ConsumerGet(hs, key)
      [] kind = "server"   -> HTTPHeaderCarrier_Get(hs, key)
      [] OTHER             -> HTTPGet(hs, key)

\* carrierAdapter.Get: the carrier's value, "" when the key is not found
carrierAdapter_Get(kind, hs, key) ==
    LET r == CarrierGet(kind, hs, key)
    IN  IF r.found THEN r.value ELSE EmptyValue

\* carrierAdapter.Set: a.carrier.Set(key, value)
carrierAdapter_Set(kind, hs, key, value) == CarrierSet(kind, hs, key, value)

\* a started span: who made it, its identifiers, and what the SDK keeps
NewSpan(impl, traceID, spanID, name) ==
    [impl |-> impl, traceID |-> traceID, spanID |-> spanID, name |-> name,
     attrs |-> {}, error |-> FALSE, ended |-> FALSE, calls |-> <<>>]

ErrNoTraceContext == "no trace context"
ErrInject == "inject failed"
MockTraceParent == <<"00", "test123", "test456", "01">>   \* "00-test123-test456-01"
FailingTracer == "failingTracer"

\* OTELTracer.StartSpan: t.tracer.Start(ctx, operationName); the SDK continues
\* the trace of a valid span context in ctx, else draws a new trace id, and
\* returns ctx with the new span context; n numbers the span
OTELTracer_StartSpan(ctx, operationName, n) ==
    LET parent  == ctx.sc
        traceID == IF IsValid(parent) THEN parent.traceID ELSE GenTraceID(n)
        sc      == [traceID |-> traceID, spanID |-> GenSpanID(n), remote |-> FALSE]
    IN  [span |-> NewSpan("OTELSpan", traceID, GenSpanID(n), operationName),
         ctx  |-> [ctx EXCEPT !.sc = sc]]

\* noOpTracer.StartSpan: return &noOpSpan{}, ctx
noOpTracer_StartSpan(ctx, operationName, n) ==
    [span |-> NewSpan("noOpSpan", "", "", ""), ctx |-> ctx]

\* mockTracer.StartSpan: span := &mockSpan{}; ContextWithSpan(ctx, span)
mockTracer_StartSpan(ctx, operationName, n) ==
    [span |-> NewSpan("mockSpan", "", "", ""), ctx |-> ContextWithSpan(ctx, n)]

\* OTELTracer.Inject: propagator.Inject through the carrierAdapter, then nil;
\* the propagator writes nothing when ctx holds no valid span context
OTELTracer_Inject(ctx, kind, hs) ==
    [headers |-> IF IsValid(ctx.sc)
                 THEN carrierAdapter_Set(kind, hs, TraceParentKey, FormatTraceParent(ctx.sc))
                 ELSE hs,
     err |-> NoErr]

noOpTracer_Inject_WritesKey(ctx, kind, hs) ==
    [headers |-> CarrierSet(kind, hs, TraceParentKey, MockTraceParent), err |-> NoErr]

\* noOpTracer.Inject: return nil
noOpTracer_Inject(ctx, kind, hs) == [headers |-> hs, err |-> NoErr]

\* mockTracer.Inject: carrier.Set("traceparent", "00-test123-test456-01")
mockTracer_Inject(ctx, kind, hs) ==
    [headers |-> CarrierSet(kind, hs, TraceParentKey, MockTraceParent), err |-> NoErr]

\* a Tracer whose Inject reports an error: the case kafka.go:126 and
\* RoundTrip handle; it writes nothing
failingTracer_Inject(ctx, kind, hs) == [headers |-> hs, err |-> ErrInject]

\* OTELTracer.Extract: propagator.Extract through the carrierAdapter, then nil;
\* the propagator returns ctx itself unless the value is a valid traceparent
OTELTracer_Extract(ctx, kind, hs) ==
    LET v == carrierAdapter_Get(kind, hs, TraceParentKey)
    IN  [ctx |-> IF WellFormed(v)
                 THEN [ctx EXCEPT !.sc = [traceID |-> v[2], spanID |-> v[3],
                                          remote |-> TRUE]]
                 ELSE ctx,
         err |-> NoErr]

\* noOpTracer.Extract: return ctx, nil
noOpTracer_Extract(ctx, kind, hs) == [ctx |-> ctx, err |-> NoErr]

\* mockTracer.Extract (kafkagotracer tests): ctx when the carrier has a
\* traceparent, else nil and an error
mockTracer_Extract(ctx, kind, hs) ==
    IF CarrierGet(kind, hs, TraceParentKey).found
    THEN [ctx |-> ctx, err |-> NoErr]
    ELSE [ctx |-> NilCtx, err |-> ErrNoTraceContext]

\* the Tracer interface, dispatched on the implementation
Tracer_StartSpan(t, ctx, operationName, n) ==
    CASE t = "otelTracer" -> OTELTracer_StartSpan(ctx, operationName, n)
      [] t = NoOpTracer   -> noOpTracer_StartSpan(ctx, operationName, n)
      [] OTHER            -> mockTracer_StartSpan(ctx, operationName, n)

Tracer_Inject(t, ctx, kind, hs) ==
    CASE t = "otelTracer"  -> OTELTracer_Inject(ctx, kind, hs)
      [] t = NoOpTracer    -> noOpTracer_Inject(ctx, kind, hs)
      [] t = FailingTracer -> failingTracer_Inject(ctx, kind, hs)
      [] OTHER             -> mockTracer_Inject(ctx, kind, hs)

Tracer_Extract(t, ctx, kind, hs) ==
    CASE t = "otelTracer" -> OTELTracer_Extract(ctx, kind, hs)
      [] t = NoOpTracer   -> noOpTracer_Extract(ctx, kind, hs)
      [] OTHER            -> mockTracer_Extract(ctx, kind, hs)

\* Close: every implementation returns nil
Tracer_Close(t) == NoErr

\* OTELSpan.SetTag: span.SetAttributes(key = value); an ended span records
\* nothing, a key set again keeps the last value
OTELSpan_SetTag(sp, key, value) ==
    IF sp.ended THEN sp
    ELSE [sp EXCEPT !.attrs = {a \in @ : a[1] # key} \cup {<<key, value>>}]

\* OTELSpan.SetError: RecordError and the "error" attribute, for a non-nil err
OTELSpan_SetError(sp, err) ==
    IF err = NoErr \/ sp.ended THEN sp
    ELSE [sp EXCEPT !.error = TRUE,
                    !.attrs = {a \in @ : a[1] # "error"} \cup {<<"error", err>>}]

\* OTELSpan.Finish: span.End()
OTELSpan_Finish(sp) == [sp EXCEPT !.ended = TRUE]

\* noOpSpan.TraceID: return ""
noOpSpan_TraceID(sp) == ""

\* noOpSpan.SetTag, SetError, Finish; mockSpan the same: empty bodies
noOpSpan_SetTag(sp, key, value) == sp
noOpSpan_SetError(sp, err) == sp
noOpSpan_Finish(sp) == sp

\* the Span interface, dispatched on the implementation; calls is the
\* history of the methods called on the span
Span_SetTag(sp, key, value) ==
    LET r == IF sp.impl = "OTELSpan" THEN OTELSpan_SetTag(sp, key, value)
             ELSE noOpSpan_SetTag(sp, key, value)
    IN  [r EXCEPT !.calls = Append(@, <<"SetTag", key>>)]

Span_SetError(sp, err) ==
    LET r == IF sp.impl = "OTELSpan" THEN OTELSpan_SetError(sp, err)
             ELSE noOpSpan_SetError(sp, err)
    IN  [r EXCEPT !.calls = Append(@, <<"SetError", err>>)]

Span_Finish(sp) ==
    LET r == IF sp.impl = "OTELSpan" THEN OTELSpan_Finish(sp) ELSE noOpSpan_Finish(sp)
    IN  [r EXCEPT !.calls = Append(@, <<"Finish", "">>)]

\* TraceID: the SDK span's trace id, "" for noOpSpan, "test123" for mockSpan
Span_TraceID(sp) ==
    CASE sp.impl = "OTELSpan" -> sp.traceID
      [] sp.impl = "noOpSpan" -> noOpSpan_TraceID(sp)
      [] OTHER                -> "test123"

\* Context: every implementation returns context.Background()
Span_Context(sp) == Background

(***************************************************************************)
(* Calls on the Tracer and Span interfaces                                 *)
(*                                                                         *)
(* The caller takes its tracer from GetSafeTracer and hands it contexts it *)
(* holds; the carrier is one of the kafka-go adapters over headers.        *)
(***************************************************************************)
SampleTraceID == "4bf92f3577b34da6a3ce929d0e0e4736"
SampleSpanID == "00f067aa0ba902b7"
\* 00-4bf92f3577b34da6a3ce929d0e0e4736-00f067aa0ba902b7-01
SampleTraceParent == <<"00", SampleTraceID, SampleSpanID, "01">>

\* what a sender may have put under traceparent: the sample, a value of
\* three fields, and a value whose trace id is too short
InboundValues ==
    {SampleTraceParent,
     <<"00", SampleTraceID, SampleSpanID>>,
     <<"00", "4bf92f35", SampleSpanID, "01">>}

InboundHeaderLists ==
    {<<>>}
      \cup {<<Header(TraceParentKey, v)>> : v \in InboundValues}
      \cup {<<Header("other", <<"x">>), Header(TraceParentKey, v)>> : v \in InboundValues}

ApiEntry(op, in, out, span, err, ret) ==
    [op |-> op, in |-> in, out |-> out, span |-> span, err |-> err, ret |-> ret]

TracerInit ==
    /\ globalTracer \in {Nil, "otelTracer"}
    /\ callLog = <<>>
    /\ carrierKind \in {"producer", "consumer"}
    /\ headers0 \in InboundHeaderLists
    /\ headers = headers0
    /\ opLog = <<>>
    /\ spans = <<>>
    /\ ctxs = {Background}
    /\ apiLog = <<>>

StartSpanCall ==
    /\ Len(apiLog) < MaxApi
    /\ \E ctx \in ctxs :
          LET n == Len(spans) + 1
              r == Tracer_StartSpan(GetSafeTracer, ctx, "op", n)
          IN  /\ spans' = Append(spans, r.span)
              /\ ctxs' = ctxs \cup {r.ctx}
              /\ apiLog' = Append(apiLog, ApiEntry("StartSpan", ctx, r.ctx, n, NoErr, ""))
    /\ UNCHANGED headers

InjectCall ==
    /\ Len(apiLog) < MaxApi
    /\ \E ctx \in ctxs :
          LET r == Tracer_Inject(GetSafeTracer, ctx, carrierKind, headers)
          IN  /\ headers' = r.headers
              /\ apiLog' = Append(apiLog, ApiEntry("Inject", ctx, ctx, NoSpan, r.err, ""))
    /\ UNCHANGED <<spans, ctxs>>

ExtractCall ==
    /\ Len(apiLog) < MaxApi
    /\ \E ctx \in ctxs :
          LET r == Tracer_Extract(GetSafeTracer, ctx, carrierKind, headers)
          IN  /\ ctxs' = IF r.ctx = NilCtx THEN ctxs ELSE ctxs \cup {r.ctx}
              /\ apiLog' = Append(apiLog, ApiEntry("Extract", ctx, r.ctx, NoSpan, r.err, ""))
    /\ UNCHANGED <<spans, headers>>

CloseCall ==
    /\ Len(apiLog) < MaxApi
    /\ apiLog' = Append(apiLog, ApiEntry("Close", Background, Background, NoSpan,
                                         Tracer_Close(GetSafeTracer), ""))
    /\ UNCHANGED <<spans, ctxs, headers>>

SetTagCall ==
    /\ Len(apiLog) < MaxApi
    /\ \E i \in 1..Len(spans) :
          /\ spans' = [spans EXCEPT ![i] = Span_SetTag(@, "k", "v")]
          /\ apiLog' = Append(apiLog, ApiEntry("SetTag", Background, Background, i, NoErr, ""))
    /\ UNCHANGED <<ctxs, headers>>

SetErrorCall ==
    /\ Len(apiLog) < MaxApi
    /\ \E i \in 1..Len(spans) :
          /\ spans' = [spans EXCEPT ![i] = Span_SetError(@, "boom")]
          /\ apiLog' = Append(apiLog, ApiEntry("SetError", Background, Background, i, NoErr, ""))
    /\ UNCHANGED <<ctxs, headers>>

FinishCall ==
    /\ Len(apiLog) < MaxApi
    /\ \E i \in 1..Len(spans) :
          /\ spans' = [spans EXCEPT ![i] = Span_Finish(@)]
          /\ apiLog' = Append(apiLog, ApiEntry("Finish", Background, Background, i, NoErr, ""))
    /\ UNCHANGED <<ctxs, headers>>

TraceIDCall ==
    /\ Len(apiLog) < MaxApi
    /\ \E i \in 1..Len(spans) :
          apiLog' = Append(apiLog, ApiEntry("TraceID", Background, Background, i, NoErr,
                                            Span_TraceID(spans[i])))
    /\ UNCHANGED <<spans, ctxs, headers>>

ContextCall ==
    /\ Len(apiLog) < MaxApi
    /\ \E i \in 1..Len(spans) :
          apiLog' = Append(apiLog, ApiEntry("Context", Background, Span_Context(spans[i]),
                                            i, NoErr, ""))
    /\ UNCHANGED <<spans, ctxs, headers>>

(***************************************************************************)
(* The adapters: CreateKafkaConsumerContext, InjectKafkaProducerHeaders    *)
(* (kafka.go) and TracingRoundTripper.RoundTrip (httpadapter)              *)
(*                                                                         *)
(* Each takes the registered tracer from GetTracer, the spans started so   *)
(* far (sps) and the header list of the message or request, and returns    *)
(* what it returns together with the header list and spans it leaves.      *)
(***************************************************************************)
Topic == "orders"
MsgKeys == {"", "k1"}

\* CreateKafkaConsumerContext: Extract into a background context; on an error
\* start "Kafka/Consume" from a background context, else from the extracted
\* one; finish the span at once and return the span's context
CreateKafkaConsumerContext(tracer, hs, sps) ==
    IF tracer = Nil
    THEN [ctx |-> Background, spans |-> sps, span |-> NoSpan]
    ELSE LET n == Len(sps) + 1
             e == Tracer_Extract(tracer, Background, "consumer", hs)
             from == IF e.err # NoErr THEN Background ELSE e.ctx
             r == Tracer_StartSpan(tracer, from, "Kafka/Consume", n)
         IN  [ctx |-> r.ctx, spans |-> Append(sps, Span_Finish(r.span)), span |-> n]

InjectKafkaProducerHeaders_NoNilCheck(tracer, ctx, hs, sps, key) ==
    LET n == Len(sps) + 1
        r == Tracer_StartSpan(tracer, ctx, "Kafka/Produce/" \o Topic, n)
        i == Tracer_Inject(tracer, r.ctx, "producer", hs)
    IN  [ctx |-> r.ctx, headers |-> i.headers,
         spans |-> Append(sps, Span_Finish(Span_SetTag(r.span, "kafka.topic", Topic))),
         span |-> n, injectErr |-> i.err]

InjectKafkaProducerHeaders_InjectCallerCtx(tracer, ctx, hs, sps, key) ==
    IF tracer = Nil
    THEN [ctx |-> ctx, headers |-> hs, spans |-> sps, span |-> NoSpan, injectErr |-> NoErr]
    ELSE LET n == Len(sps) + 1
             r == Tracer_StartSpan(tracer, ctx, "Kafka/Produce/" \o Topic, n)
             i == Tracer_Inject(tracer, ctx, "producer", hs)
         IN  [ctx |-> r.ctx, headers |-> i.headers,
              spans |-> Append(sps, Span_Finish(Span_SetTag(r.span, "kafka.topic", Topic))),
              span |-> n, injectErr |-> i.err]

InjectKafkaProducerHeaders_ReturnOnError(tracer, ctx, hs, sps, key) ==
    IF tracer = Nil
    THEN [ctx |-> ctx, headers |-> hs, spans |-> sps, span |-> NoSpan, injectErr |-> NoErr]
    ELSE LET n == Len(sps) + 1
             r == Tracer_StartSpan(tracer, ctx, "Kafka/Produce/" \o Topic, n)
             i == Tracer_Inject(tracer, r.ctx, "producer", hs)
         IN  IF i.err # NoErr
             THEN [ctx |-> ctx, headers |-> i.headers, spans |-> Append(sps, r.span),
                   span |-> n, injectErr |-> i.err]
             ELSE [ctx |-> r.ctx, headers |-> i.headers,
                   spans |-> Append(sps, Span_Finish(Span_SetTag(r.span, "kafka.topic", Topic))),
                   span |-> n, injectErr |-> i.err]

\* InjectKafkaProducerHeaders: with no tracer return ctx; else start
\* "Kafka/Produce/{topic}", Inject its context into msg.Headers ignoring the
\* error, tag the span (kafka.key only for a non-empty key), return the
\* span's context; the deferred Finish runs last
InjectKafkaProducerHeaders(tracer, ctx, hs, sps, key) ==
    IF tracer = Nil
    THEN [ctx |-> ctx, headers |-> hs, spans |-> sps, span |-> NoSpan, injectErr |-> NoErr]
    ELSE LET n  == Len(sps) + 1
             r  == Tracer_StartSpan(tracer, ctx, "Kafka/Produce/" \o Topic, n)
             i  == Tracer_Inject(tracer, r.ctx, "producer", hs)
             s1 == Span_SetTag(r.span, "kafka.topic", Topic)
             s2 == IF key # "" THEN Span_SetTag(s1, "kafka.key", key) ELSE s1
         IN  [ctx |-> r.ctx, headers |-> i.headers,
              spans |-> Append(sps, Span_Finish(s2)),
              span |-> n, injectErr |-> i.err]

\* what the base transport answers: a response status, or an error
BaseResults == {"200", "500", "dial error"}
IsBaseError(b) == b = "dial error"

\* one call of the base transport: the request it was handed, its context
\* and headers, and what it answered
BaseCall(ctx, hs, answer) == [ctx |-> ctx, headers |-> hs, answer |-> answer]

RoundTrip_ReturnOnInjectError(tracer, ctx, hs, sps, base) ==
    IF tracer = Nil
    THEN [forwarded |-> TRUE, sent |-> ctx, headers |-> hs, spans |-> sps, span |-> NoSpan,
          resp |-> IF IsBaseError(base) THEN "" ELSE base,
          err |-> IF IsBaseError(base) THEN base ELSE NoErr, injectErr |-> NoErr,
          baseCalls |-> <<BaseCall(ctx, hs, base)>>]
    ELSE LET n == Len(sps) + 1
             r == Tracer_StartSpan(tracer, ctx, "HTTP/GET", n)
             i == Tracer_Inject(tracer, r.ctx, "http", hs)
         IN  IF i.err # NoErr
             THEN [forwarded |-> FALSE, sent |-> r.ctx, headers |-> i.headers,
                   spans |-> Append(sps, Span_Finish(r.span)), span |-> n,
                   resp |-> "", err |-> i.err, injectErr |-> i.err, baseCalls |-> <<>>]
             ELSE [forwarded |-> TRUE, sent |-> r.ctx, headers |-> i.headers,
                   spans |-> Append(sps, Span_Finish(r.span)), span |-> n,
                   resp |-> IF IsBaseError(base) THEN "" ELSE base,
                   err |-> IF IsBaseError(base) THEN base ELSE NoErr, injectErr |-> i.err,
                   baseCalls |-> <<BaseCall(r.ctx, i.headers, base)>>]

\* TracingRoundTripper.RoundTrip: with no tracer hand req to the base
\* transport; else start "HTTP/{method}", Inject into req.Header ignoring the
\* error, tag, call the base transport with the span's context, record the
\* error or the status, return the base transport's answer; Finish is deferred
RoundTrip(tracer, ctx, hs, sps, base) ==
    IF tracer = Nil
    THEN [forwarded |-> TRUE, sent |-> ctx, headers |-> hs, spans |-> sps, span |-> NoSpan,
          resp |-> IF IsBaseError(base) THEN "" ELSE base,
          err |-> IF IsBaseError(base) THEN base ELSE NoErr, injectErr |-> NoErr,
          baseCalls |-> <<BaseCall(ctx, hs, base)>>]
    ELSE LET n  == Len(sps) + 1
             r  == Tracer_StartSpan(tracer, ctx, "HTTP/GET", n)
             i  == Tracer_Inject(tracer, r.ctx, "http", hs)
             s1 == Span_SetTag(Span_SetTag(Span_SetTag(r.span, "http.url", "u"),
                                           "http.method", "GET"), "http.host", "h")
             s2 == IF IsBaseError(base) THEN Span_SetError(s1, base)
                   ELSE LET s3 == Span_SetTag(s1, "http.status_code", base)
                        IN  IF base = "500" THEN Span_SetTag(s3, "error", "HTTP 500")
                            ELSE s3
         IN  [forwarded |-> TRUE, sent |-> r.ctx, headers |-> i.headers,
              spans |-> Append(sps, Span_Finish(s2)), span |-> n,
              resp |-> IF IsBaseError(base) THEN "" ELSE base,
              err |-> IF IsBaseError(base) THEN base ELSE NoErr, injectErr |-> i.err,
              baseCalls |-> <<BaseCall(r.ctx, i.headers, base)>>]

\* context.WithValue, and so ContextWithSpan, panics on a nil parent; the
\* SDK's tracer.Start puts context.Background() in place of nil
StartSpanPanics(tracer, ctx) == ctx = NilCtx /\ tracer \notin {"otelTracer", NoOpTracer}

\* ginHTTPHandler.SetSpanContext: Request.WithContext panics on a nil context
SetSpanContextPanics(ctx) == ctx = NilCtx

\* what one TraceHTTPRequest did: the calls it made in their order, the
\* context the handler's request held while next ran (NilCtx when next did
\* not run) and holds afterwards, the entry span, and whether it panicked
Traced(events, reqCtx, nextSaw, sps, span, extractErr, panic) ==
    [events |-> events, reqCtx |-> reqCtx, nextSaw |-> nextSaw, spans |-> sps,
     span |-> span, extractErr |-> extractErr, panic |-> panic]

TraceHTTPRequest_FinishBeforeNext(tracer, ctx, hs, sps) ==
    IF tracer = Nil
    THEN Traced(<<"next">>, ctx, ctx, sps, NoSpan, NoErr, FALSE)
    ELSE LET n == Len(sps) + 1
             e == Tracer_Extract(tracer, ctx, "server", hs)
         IN  IF StartSpanPanics(tracer, e.ctx)
             THEN Traced(<<"Extract", "StartSpan">>, ctx, NilCtx, sps, NoSpan, e.err, TRUE)
             ELSE LET r == Tracer_StartSpan(tracer, e.ctx, "GET" \o " " \o "/path", n)
                  IN  Traced(<<"Extract", "StartSpan", "SetSpanContext", "Finish", "next">>,
                             r.ctx, r.ctx, Append(sps, Span_Finish(r.span)), n, e.err, FALSE)

\* TraceHTTPRequest: with no tracer call next; else Extract from the request
\* headers dropping the error, start "{method} {url}" from the context
\* Extract returned, hand the span's context to the handler, call next, and
\* finish the span after next has returned
TraceHTTPRequest(tracer, ctx, hs, sps) ==
    IF tracer = Nil
    THEN Traced(<<"next">>, ctx, ctx, sps, NoSpan, NoErr, FALSE)
    ELSE LET n == Len(sps) + 1
             e == Tracer_Extract(tracer, ctx, "server", hs)
         IN  IF StartSpanPanics(tracer, e.ctx)
             THEN Traced(<<"Extract", "StartSpan">>, ctx, NilCtx, sps, NoSpan, e.err, TRUE)
             ELSE LET r == Tracer_StartSpan(tracer, e.ctx, "GET" \o " " \o "/path", n)
                  IN  IF SetSpanContextPanics(r.ctx)
                      THEN Traced(<<"Extract", "StartSpan", "SetSpanContext">>, ctx, NilCtx,
                                  Append(sps, r.span), n, e.err, TRUE)
                      ELSE Traced(<<"Extract", "StartSpan", "SetSpanContext", "next", "Finish">>,
                                  r.ctx, r.ctx, Append(sps, Span_Finish(r.span)), n, e.err, FALSE)

AdapterEntry(op, in, out, span, err, ret, injectErr, forwarded) ==
    [op |-> op, in |-> in, out |-> out, span |-> span, err |-> err, ret |-> ret,
     injectErr |-> injectErr, forwarded |-> forwarded]

AdapterTracers == {Nil, "otelTracer", "mockTracer", FailingTracer}

\* two traceparent entries, as a sender that appended twice leaves them
DupTraceParentList ==
    <<Header(TraceParentKey, SampleTraceParent),
      Header(TraceParentKey, <<"00", SampleTraceID, SampleSpanID>>)>>

AdapterInit ==
    /\ globalTracer \in AdapterTracers
    /\ callLog = <<>>
    /\ carrierKind \in {"producer", "consumer", "http", "server"}
    /\ headers0 \in IF carrierKind \in {"http", "server"}
                    THEN {HTTPHeaderOf(hs) : hs \in InboundHeaderLists \cup {DupTraceParentList}}
                    ELSE InboundHeaderLists \cup {DupTraceParentList}
    /\ headers = headers0
    /\ opLog = <<>>
    /\ spans = <<>>
    /\ ctxs = {Background}
    /\ apiLog = <<>>

CreateKafkaConsumerContextCall ==
    /\ carrierKind = "consumer"
    /\ Len(apiLog) < MaxApi
    /\ LET r == CreateKafkaConsumerContext(GetTracer, headers, spans)
       IN  /\ spans' = r.spans
           /\ ctxs' = ctxs \cup {r.ctx}
           /\ apiLog' = Append(apiLog, AdapterEntry("CreateKafkaConsumerContext", Background,
                                                    r.ctx, r.span, NoErr, "", NoErr, FALSE))
    /\ UNCHANGED headers

InjectKafkaProducerHeadersCall ==
    /\ carrierKind = "producer"
    /\ Len(apiLog) < MaxApi
    /\ \E ctx \in ctxs, key \in MsgKeys :
          LET r == InjectKafkaProducerHeaders(GetTracer, ctx, headers, spans, key)
          IN  /\ headers' = r.headers
              /\ spans' = r.spans
              /\ ctxs' = ctxs \cup {r.ctx}
              /\ apiLog' = Append(apiLog, AdapterEntry("InjectKafkaProducerHeaders", ctx,
                                                       r.ctx, r.span, NoErr, "", r.injectErr, FALSE))

RoundTripCall ==
    /\ carrierKind = "http"
    /\ Len(apiLog) < MaxApi
    /\ \E ctx \in ctxs, base \in BaseResults :
          LET r == RoundTrip(GetTracer, ctx, headers, spans, base)
          IN  /\ headers' = r.headers
              /\ spans' = r.spans
              /\ ctxs' = ctxs \cup {r.sent}
              /\ apiLog' = Append(apiLog,
                    AdapterEntry("RoundTrip", ctx, r.sent, r.span, r.err, r.resp,
                                 r.injectErr, r.forwarded) @@ [baseCalls |-> r.baseCalls])

\* TraceHTTPRequest(ctx, handler, next), ctx being the request's context as
\* in TraceMiddleware
TraceHTTPRequestCall ==
    /\ carrierKind = "server"
    /\ Len(apiLog) < MaxApi
    /\ \E ctx \in ctxs :
          LET r == TraceHTTPRequest(GetTracer, ctx, headers, spans)
          IN  /\ spans' = r.spans
              /\ ctxs' = ctxs \cup {r.reqCtx}
              /\ apiLog' = Append(apiLog,
                    AdapterEntry("TraceHTTPRequest", ctx, r.reqCtx, r.span, NoErr, "",
                                 NoErr, FALSE)
                      @@ [events |-> r.events, nextSaw |-> r.nextSaw,
                          extractErr |-> r.extractErr, panic |-> r.panic])
    /\ UNCHANGED headers

(***************************************************************************)
(* Context helpers on their own: a caller attaches spans to the contexts   *)
(* it holds and reads them back                                            *)
(***************************************************************************)
\* a context as tracer.Start of the SDK leaves it: a span context, no Span
\* under _spanKey
StartedCtx == OTELTracer_StartSpan(Background, "op", 1).ctx

ContextInit ==
    /\ globalTracer = Nil
    /\ callLog = <<>>
    /\ spans = <<NewSpan("mockSpan", "", "", ""), NewSpan("mockSpan", "", "", "")>>
    /\ ctxs \in {{Background}, {Background, StartedCtx}}
    /\ apiLog = <<>>

\* ctx2 := ContextWithSpan(ctx, span), for a span or the nil Span
ContextWithSpanCall ==
    /\ Len(apiLog) < MaxApi
    /\ \E ctx \in ctxs, span \in 0..Len(spans) :
          LET out == ContextWithSpan(ctx, span)
          IN  /\ ctxs' = ctxs \cup {out}
              /\ apiLog' = Append(apiLog, ApiEntry("ContextWithSpan", ctx, out, span, NoErr, ""))
    /\ UNCHANGED spans

\* span := SpanFromContext(ctx)
SpanFromContextCall ==
    /\ Len(apiLog) < MaxApi
    /\ \E ctx \in ctxs :
          apiLog' = Append(apiLog, ApiEntry("SpanFromContext", ctx, ctx,
                                            SpanFromContext(ctx), NoErr, ""))
    /\ UNCHANGED <<spans, ctxs>>

(***************************************************************************)
(* The HTTP carriers: httpHeaderCarrier over the outgoing request's        *)
(* http.Header, HTTPHeaderCarrier over the handler of the incoming one     *)
(***************************************************************************)
HTTPKeys   == {"traceparent", "Traceparent", "other"}
HTTPValues == {<<"v1">>, EmptyValue}

HTTPCarrierInit ==
    /\ carrierKind \in {"http", "server"}
    /\ headers0 \in SeqsUpTo({Header(CanonicalMIMEHeaderKey(k), v) :
                                k \in HTTPKeys, v \in HTTPValues}, MaxHeaders)
    /\ headers = headers0
    /\ opLog = <<>>

\* carrier.Set(k, v) on the client side
HTTPSetCall ==
    /\ carrierKind = "http"
    /\ Len(opLog) < MaxHTTPOps
    /\ \E k \in HTTPKeys, v \in HTTPValues :
          /\ headers' = HTTPSet(headers, k, v)
          /\ opLog' = Append(opLog, SetEntry(k, v))
    /\ UNCHANGED <<carrierKind, headers0>>

\* carrier.Get(k) on the client side
HTTPGetCall ==
    /\ carrierKind = "http"
    /\ Len(opLog) < MaxHTTPOps
    /\ \E k \in HTTPKeys :
          opLog' = Append(opLog, GetEntry(k, HTTPGet(headers, k)))
    /\ UNCHANGED <<carrierKind, headers0, headers>>

\* carrier.Set(k, v) on the server side
HTTPHeaderCarrierSetCall ==
    /\ carrierKind = "server"
    /\ Len(opLog) < MaxHTTPOps
    /\ \E k \in HTTPKeys, v \in HTTPValues :
          /\ headers' = HTTPHeaderCarrier_Set(headers, k, v)
          /\ opLog' = Append(opLog, SetEntry(k, v))
    /\ UNCHANGED <<carrierKind, headers0>>

\* carrier.Get(k) on the server side
HTTPHeaderCarrierGetCall ==
    /\ carrierKind = "server"
    /\ Len(opLog) < MaxHTTPOps
    /\ \E k \in HTTPKeys :
          opLog' = Append(opLog, GetEntry(k, HTTPHeaderCarrier_Get(headers, k)))
    /\ UNCHANGED <<carrierKind, headers0, headers>>

(***************************************************************************)
(* The trace id providers registered with the logger                       *)
(***************************************************************************)
\* tracerProvider.GetTraceID: "" without a tracer, "" without a span in
\* ctx, else span.TraceID()
tracerProvider_GetTraceID(tracer, ctx, sps) ==
    IF tracer = Nil THEN ""
    ELSE IF SpanFromContext(ctx) = NoSpan THEN ""
    ELSE Span_TraceID(sps[SpanFromContext(ctx)])

\* OTELProvider.GetTraceID: "" without a span in ctx, the span's TraceID()
\* when it is an *OTELSpan, "" for every other implementation
OTELProvider_GetTraceID(ctx, sps) ==
    IF SpanFromContext(ctx) = NoSpan THEN ""
    ELSE IF sps[SpanFromContext(ctx)].impl = "OTELSpan"
         THEN Span_TraceID(sps[SpanFromContext(ctx)])
         ELSE ""

\* the providers a program can hold: the OTELProvider that
\* InitOpenTelemetryTracer registers, and NewTraceIDProvider(tracer, name)
\* for the registered tracer or for nil
Providers ==
    {[kind |-> "OTELProvider", tracer |-> "otelTracer"]}
        \cup {[kind |-> "tracerProvider", tracer |-> t] : t \in {Nil, globalTracer}}

GetTraceID(provider, ctx, sps) ==
    IF provider.kind = "OTELProvider"
    THEN OTELProvider_GetTraceID(ctx, sps)
    ELSE tracerProvider_GetTraceID(provider.tracer, ctx, sps)

ProviderInit ==
    /\ globalTracer \in {Nil, "otelTracer", "mockTracer"}
    /\ callLog = <<>>
    /\ spans = <<>>
    /\ ctxs = {Background}
    /\ apiLog = <<>>

\* id := provider.GetTraceID(ctx)
GetTraceIDCall ==
    /\ Len(apiLog) < MaxApi
    /\ \E ctx \in ctxs, provider \in Providers :
          apiLog' = Append(apiLog, ApiEntry("GetTraceID", ctx, provider, SpanFromContext(ctx),
                                            NoErr, GetTraceID(provider, ctx, spans)))
    /\ UNCHANGED <<spans, ctxs>>

(***************************************************************************)
(* Initialisation: InitTracer and InitOpenTelemetryTracer                  *)
(***************************************************************************)
ErrResource == "resource.Merge failed"
ErrExporter == "otlptracegrpc.New failed"
ErrUnsupportedExporter == "unsupported exporter type"

\* createExporterByType: the OTLP exporter may fail to be created, the
\* stdout exporter and "none" never fail, any other type is an error
createExporterByType(config, otlp) ==
    CASE config.Exporter.Type = "otlp"   -> otlp
      [] config.Exporter.Type = "stdout" -> NoErr
      [] config.Exporter.Type = "none"   -> NoErr
      [] OTHER                           -> ErrUnsupportedExporter

\* what an initialisation did: the error returned, the tracer registered
\* when it returned, and the steps it went through
Booted(err, tracer, steps) == [err |-> err, tracer |-> tracer, steps |-> steps]

InitOpenTelemetryTracer_RegisterFirst(load, res, otlp, tracer) ==
    IF load.err # NoErr THEN Booted(load.err, tracer, <<"LoadConfig">>)
    ELSE IF ~load.cfg.Enabled THEN Booted(NoErr, tracer, <<"LoadConfig">>)
    ELSE IF res # NoErr
         THEN Booted(res, "otelTracer", <<"LoadConfig", "RegisterTracer", "createResource">>)
    ELSE IF createExporterByType(load.cfg, otlp) # NoErr
         THEN Booted(createExporterByType(load.cfg, otlp), "otelTracer",
                     <<"LoadConfig", "RegisterTracer", "createResource", "createExporterByType">>)
    ELSE Booted(NoErr, "otelTracer",
                <<"LoadConfig", "RegisterTracer", "createResource", "createExporterByType",
                  "SetTracerProvider", "RegisterTraceIDProvider", "SetGlobalPropagators">>)

\* InitOpenTelemetryTracer: load the configuration, return nil when tracing
\* is disabled, create the resource, the exporter, the sampler and the
\* tracer provider, then register the OTELTracer, the OTELProvider and the
\* propagator; every error is returned before anything is registered
InitOpenTelemetryTracer(load, res, otlp, tracer) ==
    IF load.err # NoErr THEN Booted(load.err, tracer, <<"LoadConfig">>)
    ELSE IF ~load.cfg.Enabled THEN Booted(NoErr, tracer, <<"LoadConfig">>)
    ELSE IF res # NoErr THEN Booted(res, tracer, <<"LoadConfig", "createResource">>)
    ELSE IF createExporterByType(load.cfg, otlp) # NoErr
         THEN Booted(createExporterByType(load.cfg, otlp), tracer,
                     <<"LoadConfig", "createResource", "createExporterByType">>)
    ELSE Booted(NoErr, "otelTracer",
                <<"LoadConfig", "createResource", "createExporterByType",
                  "SetTracerProvider", "RegisterTracer", "RegisterTraceIDProvider",
                  "SetGlobalPropagators">>)

\* InitTracer: load the configuration, return nil when tracing is disabled,
\* else InitOpenTelemetryTracer, which loads the configuration again
InitTracer(load, res, otlp, tracer) ==
    IF load.err # NoErr THEN Booted(load.err, tracer, <<"LoadConfig">>)
    ELSE IF ~load.cfg.Enabled THEN Booted(NoErr, tracer, <<"LoadConfig">>)
    ELSE LET r == InitOpenTelemetryTracer(load, res, otlp, tracer)
         IN  Booted(r.err, r.tracer, <<"LoadConfig">> \o r.steps)

\* the process starts with ./trace.yaml and ./application.yaml deployed or
\* not, no variable exported, and a tracer registered by hand or not
BootInit ==
    /\ fs \in {[p \in AllPaths |-> IF p = Join(".", "trace.yaml") THEN c1
                                   ELSE IF p = Join(".", "application.yaml") THEN c2
                                   ELSE Absent] :
                  c1 \in Contents \cup {Absent}, c2 \in Contents \cup {Absent}}
    /\ env \in {e \in Envs : Deviations([p \in AllPaths |-> Absent], e) = 0}
    /\ loadResult = NotLoaded
    /\ globalTracer \in {Nil, "mockTracer"}
    /\ callLog = <<>>
    /\ apiLog = <<>>

BootEntry(op, before, load, res, otlp, r) ==
    [op |-> op, before |-> before, load |-> load, res |-> res, otlp |-> otlp,
     err |-> r.err, after |-> r.tracer, steps |-> r.steps]

\* err := InitTracer()
InitTracerCall ==
    /\ loadResult = NotLoaded
    /\ \E res \in {NoErr, ErrResource}, otlp \in {NoErr, ErrExporter} :
          LET r == InitTracer(Load, res, otlp, globalTracer)
          IN  /\ RegisterTracer(r.tracer)
              /\ loadResult' = Load
              /\ apiLog' = Append(apiLog, BootEntry("InitTracer", globalTracer, Load, res, otlp, r))
    /\ UNCHANGED <<fs, env, callLog>>

\* err := InitOpenTelemetryTracer()
InitOpenTelemetryTracerCall ==
    /\ loadResult = NotLoaded
    /\ \E res \in {NoErr, ErrResource}, otlp \in {NoErr, ErrExporter} :
          LET r == InitOpenTelemetryTracer(Load, res, otlp, globalTracer)
          IN  /\ RegisterTracer(r.tracer)
              /\ loadResult' = Load
              /\ apiLog' = Append(apiLog, BootEntry("InitOpenTelemetryTracer", globalTracer,
                                                    Load, res, otlp, r))
    /\ UNCHANGED <<fs, env, callLog>>

(***************************************************************************)
(* The registry under concurrent callers                                   *)
(*                                                                         *)
(* Each goroutine makes one call of RegisterTracer, GetTracer or           *)
(* GetSafeTracer, a later call being a goroutine that starts later; a call *)
(* runs in the steps the code takes under globalTracerMu.  Lock takes the  *)
(* writer slot, which keeps new readers out, then waits for the readers    *)
(* inside to leave; RLock waits while the writer slot is taken.  The store *)
(* and the load of globalTracer are steps of their own, so that a reader   *)
(* and a writer inside the lock together would show.                       *)
(***************************************************************************)
Procs == 1..NumProcs
NoProc == 0

\* sync.RWMutex.RLock may proceed: no writer holds or waits for the lock
RLockFree_Always(m) == TRUE

RLockFree(m) == m.w = NoProc

\* sync.RWMutex.Lock, second half, may proceed: no reader is inside
LockFree(m) == m.readers = {}

At(p, pc) == procs[p].pc = pc
Goto(p, pc) == procs' = [procs EXCEPT ![p].pc = pc]

\* goroutines are interchangeable: they make their calls in the order of
\* their numbers
MayStart(p) ==
    /\ procs[p].pc = "idle"
    /\ \A q \in 1..(p - 1) : procs[q].pc # "idle"

\* a goroutine's record: the call it makes, the value it has loaded and,
\* for the properties, of a read how many stores had taken effect when it
\* was called (from) and when it returned (upto) and which RegisterTracer
\* calls had returned when it was called (after)
Proc(pc, op, arg) ==
    [pc |-> pc, op |-> op, arg |-> arg, val |-> Nil,
     from |-> IF op = "RegisterTracer" THEN 0 ELSE Len(callLog),
     upto |-> 0,
     after |-> IF op = "RegisterTracer" THEN {}
               ELSE {q \in Procs : procs[q].pc = "done" /\ procs[q].op = "RegisterTracer"}]

\* in this machine callLog is the history of the stores that took effect
LockInit ==
    /\ globalTracer = Nil
    /\ callLog = <<>>
    /\ mu = [w |-> NoProc, readers |-> {}]
    /\ procs = [p \in Procs |-> [pc |-> "idle", op |-> "", arg |-> Nil, val |-> Nil,
                                 from |-> 0, upto |-> 0, after |-> {}]]

\* a goroutine calls RegisterTracer(t), GetTracer() or GetSafeTracer()
CallRegisterTracer(p) ==
    /\ MayStart(p)
    /\ \E t \in TracerArgs :
          procs' = [procs EXCEPT ![p] = Proc("Lock", "RegisterTracer", t)]
    /\ UNCHANGED <<globalTracer, callLog, mu>>

CallGetTracer(p) ==
    /\ MayStart(p)
    /\ \E op \in {"GetTracer", "GetSafeTracer"} :
          procs' = [procs EXCEPT ![p] = Proc("RLock", op, Nil)]
    /\ UNCHANGED <<globalTracer, callLog, mu>>

\* RegisterTracer: globalTracerMu.Lock()
RegisterTracer_Lock(p) ==
    /\ At(p, "Lock") /\ mu.w = NoProc
    /\ mu' = [mu EXCEPT !.w = p]
    /\ Goto(p, "LockWait")
    /\ UNCHANGED <<globalTracer, callLog>>

RegisterTracer_LockWait(p) ==
    /\ At(p, "LockWait") /\ LockFree(mu)
    /\ Goto(p, "Store")
    /\ UNCHANGED <<globalTracer, callLog, mu>>

\* RegisterTracer: globalTracer = tracer
RegisterTracer_Store(p) ==
    /\ At(p, "Store")
    /\ RegisterTracer(procs[p].arg)
    /\ callLog' = Append(callLog, [val |-> procs[p].arg])
    /\ Goto(p, "Unlock")
    /\ UNCHANGED mu

\* RegisterTracer: the deferred globalTracerMu.Unlock(), then return
RegisterTracer_Unlock(p) ==
    /\ At(p, "Unlock")
    /\ mu' = [mu EXCEPT !.w = NoProc]
    /\ Goto(p, "done")
    /\ UNCHANGED <<globalTracer, callLog>>

\* GetTracer: globalTracerMu.RLock()
GetTracer_RLock(p) ==
    /\ At(p, "RLock") /\ RLockFree(mu)
    /\ mu' = [mu EXCEPT !.readers = @ \cup {p}]
    /\ Goto(p, "Load")
    /\ UNCHANGED <<globalTracer, callLog>>

\* GetTracer: return globalTracer
GetTracer_Load(p) ==
    /\ At(p, "Load")
    /\ procs' = [procs EXCEPT ![p].val = GetTracer, ![p].pc = "RUnlock"]
    /\ UNCHANGED <<globalTracer, callLog, mu>>

\* GetTracer: the deferred globalTracerMu.RUnlock(), then return
GetTracer_RUnlock(p) ==
    /\ At(p, "RUnlock")
    /\ mu' = [mu EXCEPT !.readers = @ \ {p}]
    /\ procs' = [procs EXCEPT ![p].pc = "done", ![p].upto = Len(callLog)]
    /\ UNCHANGED <<globalTracer, callLog>>

\* what the call of goroutine p returns: GetSafeTracer puts a noOpTracer in
\* place of the nil that GetTracer returned to it
Returned(p) ==
    IF procs[p].op = "GetSafeTracer" /\ procs[p].val = Nil
    THEN NoOpTracer ELSE procs[p].val

\* the steps of a call under way, which the scheduler keeps running
RunStep(p) ==
    \/ RegisterTracer_Lock(p)
    \/ RegisterTracer_LockWait(p)
    \/ RegisterTracer_Store(p)
    \/ RegisterTracer_Unlock(p)
    \/ GetTracer_RLock(p)
    \/ GetTracer_Load(p)
    \/ GetTracer_RUnlock(p)

(***************************************************************************)
(* Specifications: one per machine, the other machines stand still         *)
(***************************************************************************)
RegistryIdle == globalTracer = Nil /\ callLog = <<>>
ConfigIdle ==
    /\ fs = [p \in AllPaths |-> Absent]
    /\ env = [SERVICE_NAME |-> "", APP_NAME |-> "", ZLTRACE_CONFIG |-> NoPath,
              exe |-> "orders.exe", cwd |-> "proj"]
    /\ loadResult = NotLoaded
ValidateIdle == vcfg = NilConfig /\ verr = Pending
CarrierIdle ==
    carrierKind = "producer" /\ headers0 = <<>> /\ headers = <<>> /\ opLog = <<>>
LockIdle == mu = [w |-> 0, readers |-> {}] /\ procs = <<>>
TraceIdle == spans = <<>> /\ ctxs = {Background} /\ apiLog = <<>>

RegistryNext ==
    \/ RegisterTracerCall /\ UNCHANGED <<configVars, validateVars, carrierVars, traceVars, lockVars>>
    \/ GetTracerCall /\ UNCHANGED <<configVars, validateVars, carrierVars, traceVars, lockVars>>
    \/ GetSafeTracerCall /\ UNCHANGED <<configVars, validateVars, carrierVars, traceVars, lockVars>>
InitRegistry == RegistryInit /\ ConfigIdle /\ ValidateIdle /\ CarrierIdle /\ TraceIdle /\ LockIdle
SpecRegistry == InitRegistry /\ [][RegistryNext]_vars

ConfigNext ==
    \/ WriteFile /\ UNCHANGED <<registryVars, validateVars, carrierVars, traceVars, lockVars>>
    \/ LoadConfig /\ UNCHANGED <<registryVars, validateVars, carrierVars, traceVars, lockVars>>
InitConfig == ConfigInit /\ RegistryIdle /\ ValidateIdle /\ CarrierIdle /\ TraceIdle /\ LockIdle
SpecConfig == InitConfig /\ [][ConfigNext]_vars

ValidateNext ==
    ValidateCall /\ UNCHANGED <<registryVars, configVars, carrierVars, traceVars, lockVars>>
InitValidate == ValidateInit /\ RegistryIdle /\ ConfigIdle /\ CarrierIdle /\ TraceIdle /\ LockIdle
SpecValidate == InitValidate /\ [][ValidateNext]_vars

CarrierNext ==
    \/ ProducerSetCall /\ UNCHANGED <<registryVars, configVars, validateVars, traceVars, lockVars>>
    \/ ProducerGetCall /\ UNCHANGED <<registryVars, configVars, validateVars, traceVars, lockVars>>
    \/ ConsumerSetCall /\ UNCHANGED <<registryVars, configVars, validateVars, traceVars, lockVars>>
    \/ ConsumerGetCall /\ UNCHANGED <<registryVars, configVars, validateVars, traceVars, lockVars>>
InitCarrier == CarrierInit /\ RegistryIdle /\ ConfigIdle /\ ValidateIdle /\ TraceIdle /\ LockIdle
SpecCarrier == InitCarrier /\ [][CarrierNext]_vars

TracerFrame ==
    UNCHANGED <<globalTracer, callLog, configVars, validateVars,
                carrierKind, headers0, opLog, lockVars>>
TracerNext ==
    \/ StartSpanCall /\ TracerFrame
    \/ InjectCall /\ TracerFrame
    \/ ExtractCall /\ TracerFrame
    \/ CloseCall /\ TracerFrame
    \/ SetTagCall /\ TracerFrame
    \/ SetErrorCall /\ TracerFrame
    \/ FinishCall /\ TracerFrame
    \/ TraceIDCall /\ TracerFrame
    \/ ContextCall /\ TracerFrame
InitApi == TracerInit /\ ConfigIdle /\ ValidateIdle /\ LockIdle
SpecTracer == InitApi /\ [][TracerNext]_vars

ContextFrame ==
    UNCHANGED <<globalTracer, callLog, configVars, validateVars, carrierVars, lockVars>>
ContextNext ==
    \/ ContextWithSpanCall /\ ContextFrame
    \/ SpanFromContextCall /\ ContextFrame
InitContext == ContextInit /\ ConfigIdle /\ ValidateIdle /\ CarrierIdle /\ LockIdle
SpecContext == InitContext /\ [][ContextNext]_vars

HTTPCarrierFrame == UNCHANGED <<registryVars, configVars, validateVars, traceVars, lockVars>>
HTTPCarrierNext ==
    \/ HTTPSetCall /\ HTTPCarrierFrame
    \/ HTTPGetCall /\ HTTPCarrierFrame
    \/ HTTPHeaderCarrierSetCall /\ HTTPCarrierFrame
    \/ HTTPHeaderCarrierGetCall /\ HTTPCarrierFrame
InitHTTPCarrier ==
    HTTPCarrierInit /\ RegistryIdle /\ ConfigIdle /\ ValidateIdle /\ TraceIdle /\ LockIdle
SpecHTTPCarrier == InitHTTPCarrier /\ [][HTTPCarrierNext]_vars

BootFrame == UNCHANGED <<validateVars, carrierVars, spans, ctxs, lockVars>>
BootNext ==
    \/ InitTracerCall /\ BootFrame
    \/ InitOpenTelemetryTracerCall /\ BootFrame
InitBoot ==
    /\ BootInit /\ ValidateIdle /\ CarrierIdle /\ LockIdle
    /\ spans = <<>> /\ ctxs = {Background}
SpecBoot == InitBoot /\ [][BootNext]_vars

ProviderNext ==
    \/ StartSpanCall /\ TracerFrame
    \/ ContextWithSpanCall /\ ContextFrame
    \/ GetTraceIDCall /\ ContextFrame
InitProvider == ProviderInit /\ ConfigIdle /\ ValidateIdle /\ CarrierIdle /\ LockIdle
SpecProvider == InitProvider /\ [][ProviderNext]_vars

LockFrame == UNCHANGED <<configVars, validateVars, carrierVars, traceVars>>
LockNext ==
    \/ \E p \in Procs : CallRegisterTracer(p) /\ LockFrame
    \/ \E p \in Procs : CallGetTracer(p) /\ LockFrame
    \/ \E p \in Procs : RegisterTracer_Lock(p) /\ LockFrame
    \/ \E p \in Procs : RegisterTracer_LockWait(p) /\ LockFrame
    \/ \E p \in Procs : RegisterTracer_Store(p) /\ LockFrame
    \/ \E p \in Procs : RegisterTracer_Unlock(p) /\ LockFrame
    \/ \E p \in Procs : GetTracer_RLock(p) /\ LockFrame
    \/ \E p \in Procs : GetTracer_Load(p) /\ LockFrame
    \/ \E p \in Procs : GetTracer_RUnlock(p) /\ LockFrame
InitLock == LockInit /\ ConfigIdle /\ ValidateIdle /\ CarrierIdle /\ TraceIdle
SpecLock ==
    /\ InitLock
    /\ [][LockNext]_vars
    /\ \A p \in Procs : WF_vars(RunStep(p) /\ LockFrame)

AdapterNext ==
    \/ CreateKafkaConsumerContextCall /\ TracerFrame
    \/ InjectKafkaProducerHeadersCall /\ TracerFrame
    \/ RoundTripCall /\ TracerFrame
    \/ TraceHTTPRequestCall /\ TracerFrame
InitAdapter == AdapterInit /\ ConfigIdle /\ ValidateIdle /\ LockIdle
SpecAdapter == InitAdapter /\ [][AdapterNext]_vars

(***************************************************************************)
(* Properties of the tracer registry (SpecRegistry)                        *)
(***************************************************************************)
\* the argument of the last RegisterTracer call before call i, nil when there
\* was none: read off the call history, not off globalTracer
LastRegistered(i) ==
    LET regs == {j \in 1..(i - 1) : callLog[j].op = "RegisterTracer"}
    IN  IF regs = {} THEN Nil
        ELSE callLog[CHOOSE j \in regs : \A m \in regs : m <= j].arg

\* C1: whatever RegisterTracer calls came before (none, or a last one with
\* nil), GetSafeTracer returns a non-nil tracer: the registered one if there
\* is one, else the no-op tracer.
C1_GetSafeNeverNil ==
    \A i \in 1..Len(callLog) :
        callLog[i].op = "GetSafeTracer" =>
            /\ callLog[i].ret # Nil
            /\ callLog[i].ret = IF LastRegistered(i) # Nil THEN LastRegistered(i)
                                ELSE NoOpTracer

\* GetSafeTracer was called right after RegisterTracer(nil) undid a registration
C1_Witness ==
    \E i \in 3..Len(callLog) :
        /\ callLog[i].op = "GetSafeTracer"
        /\ callLog[i - 1].op = "RegisterTracer" /\ callLog[i - 1].arg = Nil
        /\ callLog[i - 2].op = "RegisterTracer" /\ callLog[i - 2].arg # Nil

\* C2: GetTracer returns exactly the argument of the most recent
\* RegisterTracer call, and nil if that was nil or there was no call.
C2_LastWriteWins ==
    \A i \in 1..Len(callLog) :
        callLog[i].op = "GetTracer" => callLog[i].ret = LastRegistered(i)

\* GetTracer was called after a registration was replaced by another
\* argument (another tracer, or nil)
C2_Witness ==
    \E i \in 3..Len(callLog) :
        /\ callLog[i].op = "GetTracer"
        /\ callLog[i - 1].op = "RegisterTracer"
        /\ callLog[i - 2].op = "RegisterTracer"
        /\ callLog[i - 2].arg # Nil
        /\ callLog[i - 1].arg # callLog[i - 2].arg

(***************************************************************************)
(* Properties of validateConfig (SpecValidate)                             *)
(***************************************************************************)
\* C6: validateConfig returns an error exactly for an enabled config whose
\* exporter type is not otlp, stdout or none, or is otlp with an empty
\* endpoint; a disabled config is accepted whatever its fields are.
C6_ValidateIff ==
    verr # Pending =>
        /\ (verr # NoErr) <=>
              /\ vcfg.Enabled
              /\ \/ vcfg.Exporter.Type \notin {"otlp", "stdout", "none"}
                 \/ vcfg.Exporter.Type = "otlp" /\ vcfg.Exporter.OTLP.Endpoint = ""
        /\ ~vcfg.Enabled => verr = NoErr

\* a disabled config with an unknown exporter type went through validateConfig
C6_Witness ==
    /\ verr # Pending
    /\ vcfg # NilConfig
    /\ ~vcfg.Enabled
    /\ vcfg.Exporter.Type = "invalid"

(***************************************************************************)
(* Properties of the kafka-go carriers (SpecCarrier)                       *)
(***************************************************************************)
Count(hs, key) == Cardinality({i \in 1..Len(hs) : hs[i].Key = key})

\* the last three calls were Set(k, _), Set(k, v2), Get(k)
SetSetGet ==
    /\ Len(opLog) >= 3
    /\ LET n == Len(opLog)
       IN  /\ opLog[n - 2].op = "Set" /\ opLog[n - 1].op = "Set" /\ opLog[n].op = "Get"
           /\ opLog[n - 2].key = opLog[n].key
           /\ opLog[n - 1].key = opLog[n].key

\* C9 as stated: on the producer carrier, over any initial list, Set(k, v1),
\* Set(k, v2), Get(k) returns (v2, found) and the list then holds exactly one
\* entry with key k.
C9_ExactlyOneEntry ==
    (carrierKind = "producer" /\ SetSetGet) =>
        LET n == Len(opLog)
        IN  /\ opLog[n].found
            /\ opLog[n].ret = opLog[n - 1].value
            /\ Count(headers, opLog[n].key) = 1

\* C9 as amended: the read returns (v2, found); the list holds one entry with
\* key k if it held none or one before the calls, and as many as before
\* otherwise: Set neither adds a second entry nor removes earlier duplicates.
C9_NoNewDuplicate ==
    (carrierKind = "producer" /\ SetSetGet) =>
        LET n == Len(opLog)
            k == opLog[n].key
        IN  /\ opLog[n].found
            /\ opLog[n].ret = opLog[n - 1].value
            /\ Count(headers, k) = IF Count(headers0, k) = 0 THEN 1 ELSE Count(headers0, k)

\* Set(k, v1), Set(k, v2), Get(k) with v1 # v2 ran on a producer list that
\* already held two entries for k
C9_Witness ==
    /\ carrierKind = "producer" /\ SetSetGet
    /\ opLog[Len(opLog) - 2].value # opLog[Len(opLog) - 1].value
    /\ Count(headers0, opLog[Len(opLog)].key) = 2

\* C10: on the consumer carrier no sequence of Set calls changes the wrapped
\* list, so every Get(k) returns what it returned before the Set calls.
C10_ConsumerSetNoOp ==
    carrierKind = "consumer" =>
        /\ headers = headers0
        /\ \A i, j \in 1..Len(opLog) :
              (opLog[i].op = "Get" /\ opLog[j].op = "Get" /\ opLog[i].key = opLog[j].key)
                  => (opLog[i].ret = opLog[j].ret /\ opLog[i].found = opLog[j].found)

\* Get(k), Set(k, v), Get(k) ran on a consumer list whose entry for k does
\* not hold v, or that has no entry for k
C10_Witness ==
    /\ carrierKind = "consumer"
    /\ Len(opLog) = 3
    /\ opLog[1].op = "Get" /\ opLog[2].op = "Set" /\ opLog[3].op = "Get"
    /\ opLog[1].key = opLog[2].key /\ opLog[3].key = opLog[2].key
    /\ opLog[1].ret # opLog[2].value
    /\ Len(headers0) > 0

\* C11: on both carriers Get(k) returns the value of the first entry in list
\* order whose key is k together with found, also when several entries have
\* that key, and ("", not found) when none has; the call leaves the header
\* list as it was.
C11_GetFirstMatch ==
    [][(Len(opLog') = Len(opLog) + 1 /\ opLog'[Len(opLog')].op = "Get") =>
          LET e == opLog'[Len(opLog')]
              matches == {i \in 1..Len(headers) : headers[i].Key = e.key}
          IN  /\ headers' = headers
              /\ IF matches = {}
                 THEN ~e.found /\ e.ret = ""
                 ELSE /\ e.found
                      /\ \E i \in matches :
                            /\ \A j \in matches : i <= j
                            /\ e.ret = headers[i].Value]_vars

\* Get(k) ran on a list that holds two entries for k with different values
C11_Witness ==
    /\ Len(opLog) > 0
    /\ opLog[Len(opLog)].op = "Get"
    /\ \E i, j \in 1..Len(headers) :
          /\ i < j
          /\ headers[i].Key = opLog[Len(opLog)].key
          /\ headers[j].Key = opLog[Len(opLog)].key
          /\ headers[i].Value # headers[j].Value
          /\ opLog[Len(opLog)].ret = headers[i].Value

(***************************************************************************)
(* Properties of the configuration loader (SpecConfig)                     *)
(***************************************************************************)
Loaded == loadResult # NotLoaded

\* the candidate paths in the documented rank order
Ranked ==
    <<Join(configDirs[1], "trace.yaml"), Join(configDirs[2], "trace.yaml"),
      Join(configDirs[1], "application.yaml"), Join(configDirs[2], "application.yaml"),
      Join(configDirs[1], appEnvFile), Join(configDirs[2], appEnvFile),
      Join(configDirs[1], "zltrace.yaml"), Join(configDirs[2], "zltrace.yaml")>>
    \o (IF env.ZLTRACE_CONFIG # NoPath THEN <<env.ZLTRACE_CONFIG>> ELSE <<>>)
    \o <<EtcPath>>

\* the path is read in the embedded shape (keys under "trace")
Embedded(path) ==
    Len(path) = 2 /\ path[2] \in {"application.yaml", appEnvFile}
\* the path holds a source: the file exists, parses and, in the embedded
\* shape, has a trace section
Parses(path) ==
    /\ fs[path] \notin {Absent, Malformed}
    /\ Embedded(path) => IsSet(DocOf(fs[path]), K("trace"))
\* what the parser of the path's shape makes of the file
ConfigOf(path) ==
    IF Embedded(path) THEN parseAppTraceConfig(DocOf(fs[path]))
    ELSE parseTraceConfig(DocOf(fs[path]))
Successful(path) == Parses(path) /\ ConfigOf(path).err = NoErr
Lowest(S) == CHOOSE i \in S : \A j \in S : i <= j

\* C3: when the highest-ranked source that exists and parses fails
\* validation, Load returns a configuration error instead of going on to
\* lower-ranked sources or to the defaults.
C3_ValidationFailureIsFatal ==
    Loaded =>
        LET there == {i \in 1..Len(Ranked) : Parses(Ranked[i])}
        IN  (there # {} /\ ConfigOf(Ranked[Lowest(there)]).err # NoErr)
                => loadResult.err # NoErr

\* C4: Load returns the configuration of the first successful source in rank
\* order, the built-in defaults when there is none; nothing ranked lower
\* changes the result.
C4_FirstSuccessfulSourceWins ==
    Loaded =>
        LET good == {i \in 1..Len(Ranked) : Successful(Ranked[i])}
        IN  /\ loadResult.err = NoErr
            /\ loadResult.cfg = IF good = {} THEN getDefaultConfig
                                ELSE ConfigOf(Ranked[Lowest(good)]).cfg

\* C5: with no configuration file anywhere and ZLTRACE_CONFIG unset, Load
\* returns no error and a config with Enabled, exporter stdout, sampler
\* always_on and a non-empty service name.
C5_DefaultsWhenNoSource ==
    (Loaded /\ env.ZLTRACE_CONFIG = NoPath /\ \A p \in AllPaths : fs[p] = Absent) =>
        /\ loadResult.err = NoErr
        /\ loadResult.cfg # NilConfig
        /\ loadResult.cfg.Enabled = TRUE
        /\ loadResult.cfg.Exporter.Type = "stdout"
        /\ loadResult.cfg.Sampler.Type = "always_on"
        /\ loadResult.cfg.ServiceName # ""

\* Load ran with no file anywhere, no variable set, and an executable name
\* that gives no service name
C5_Witness ==
    /\ Loaded /\ env.ZLTRACE_CONFIG = NoPath /\ \A p \in AllPaths : fs[p] = Absent
    /\ env.SERVICE_NAME = "" /\ env.APP_NAME = ""
    /\ env.exe = "main"

\* the explicit service-name key of the shape the winning source is read in
ExplicitNameKey(path) ==
    IF Embedded(path) THEN K2("trace", "service_name") ELSE K("service_name")
HasExplicitName(path) ==
    path # DefaultSrc /\ IsSet(DocOf(fs[path]), ExplicitNameKey(path))
\* base name of the executable without .exe
Stripped(name) == CASE name = "orders.exe" -> "orders" [] OTHER -> name
CwdUsable == env.cwd \notin {"", "/", "."}

C7_AmendedName(path) ==
    IF HasExplicitName(path) THEN DocOf(fs[path])[ExplicitNameKey(path)]
    ELSE IF Embedded(path) /\ IsSet(DocOf(fs[path]), K2("app", "name"))
         THEN DocOf(fs[path])[K2("app", "name")]
    ELSE IF env.SERVICE_NAME # "" THEN env.SERVICE_NAME
    ELSE IF env.APP_NAME # "" THEN env.APP_NAME
    ELSE IF env.exe # ExeErr /\ Stripped(env.exe) \notin {"", "go", "main"}
         THEN Stripped(env.exe)
    ELSE IF CwdUsable THEN env.cwd
    ELSE "zltrace"

C8_LegacyFormatHonoured ==
    (/\ Loaded /\ Took(loadResult)
     /\ Len(loadResult.src) = 2 /\ loadResult.src[2] = "zltrace.yaml"
     /\ IsSet(DocOf(fs[loadResult.src]), K("trace"))) =>
        LET doc == DocOf(fs[loadResult.src])
            cfg == loadResult.cfg
        IN  /\ Overrides(doc, K("trace"), cfg) = cfg
            /\ Over(doc, K2("trace", "service_name"), cfg.ServiceName) = cfg.ServiceName

\* C30: a malformed file at one candidate path only makes that path
\* unsuccessful: with nothing ranked above it, a malformed ./trace.yaml leaves
\* a valid resource/trace.yaml the winner, and a malformed ./application.yaml
\* leaves a valid resource/application.yaml the winner.
C30_MalformedFileSkipped ==
    Loaded =>
        \A k \in {1, 3} :
            (/\ fs[Ranked[k]] = Malformed
             /\ Successful(Ranked[k + 1])
             /\ \A j \in 1..(k - 1) : fs[Ranked[j]] = Absent) =>
                /\ loadResult.err = NoErr
                /\ loadResult.cfg = ConfigOf(Ranked[k + 1]).cfg

(***************************************************************************)
(* Properties of the Tracer implementations (SpecTracer)                   *)
(***************************************************************************)
LastApi == apiLog[Len(apiLog)]

\* the last three calls were StartSpan giving span S and context c, Inject of
\* c into the carrier, and Extract from the carrier into a fresh context
RoundTripDone ==
    /\ Len(apiLog) >= 3
    /\ LET n == Len(apiLog)
       IN  /\ apiLog[n - 2].op = "StartSpan"
           /\ apiLog[n - 1].op = "Inject" /\ apiLog[n - 1].in = apiLog[n - 2].out
           /\ apiLog[n].op = "Extract" /\ apiLog[n].in = Background

\* C12: with the OpenTelemetry tracer registered and a carrier that stores what
\* is Set, StartSpan, Inject and Extract into a fresh context give a context
\* whose active Span, read by SpanFromContext, has the trace id of the
\* started span, and so has a span started from that context.
C12_RoundTripKeepsTraceID ==
    (globalTracer = "otelTracer" /\ carrierKind = "producer" /\ RoundTripDone) =>
        LET n      == Len(apiLog)
            S      == spans[apiLog[n - 2].span]
            ctxE   == apiLog[n].out
            active == SpanFromContext(ctxE)
            child  == Tracer_StartSpan(GetSafeTracer, ctxE, "op", Len(spans) + 1).span
        IN  /\ active # NoSpan
            /\ Span_TraceID(spans[active]) = Span_TraceID(S)
            /\ Span_TraceID(child) = Span_TraceID(S)

\* C13: Extract of the OpenTelemetry tracer on a carrier with no traceparent
\* entry, or with one that is not four fields of the expected lengths,
\* returns a non-nil error and the context it was given.
C13_ExtractFailsOnMalformed ==
    (/\ globalTracer = "otelTracer"
     /\ Len(apiLog) > 0
     /\ LastApi.op = "Extract"
     /\ ~WellFormed(carrierAdapter_Get(carrierKind, headers, TraceParentKey))) =>
        /\ LastApi.err # NoErr
        /\ LastApi.out = LastApi.in

\* C14, for the OpenTelemetry tracer: StartSpan returns a context from which
\* SpanFromContext reads the new span, and the context handed in still reads
\* as it did before the call.
C14_StartSpanAttaches ==
    (globalTracer = "otelTracer" /\ Len(apiLog) > 0 /\ LastApi.op = "StartSpan") =>
        /\ SpanFromContext(LastApi.out) = LastApi.span
        /\ SpanFromContext(LastApi.in) # LastApi.span

\* what the calls on the NoOp tracer and its spans may touch: the carrier's
\* header list and what is recorded on the spans
NoOpUntouched ==
    /\ headers = headers0
    /\ \A i \in 1..Len(spans) :
          spans[i].attrs = {} /\ ~spans[i].error /\ ~spans[i].ended

\* C20: with no tracer registered, so that GetSafeTracer hands out the NoOp
\* tracer, every sequence of calls leaves the carrier and the spans as they
\* were; Inject, Extract, StartSpan and Close report no error, Extract
\* returns the context it was given, TraceID is "" and Span.Context is a
\* background context.
C20_NoOpAbsorbs ==
    globalTracer = Nil =>
        /\ NoOpUntouched
        /\ \A i \in 1..Len(apiLog) :
              LET e == apiLog[i]
              IN  /\ e.err = NoErr
                  /\ e.op = "Extract" => e.out = e.in
                  /\ e.op = "StartSpan" => e.span # NoSpan /\ e.out # NilCtx
                  /\ e.op = "TraceID" => e.ret = ""
                  /\ e.op = "Context" => e.out = Background

\* on the NoOp tracer a span was started from a context, Inject ran on a
\* producer carrier and the span was finished
C20_Witness ==
    /\ globalTracer = Nil
    /\ carrierKind = "producer"
    /\ Len(apiLog) = 3
    /\ apiLog[1].op = "StartSpan"
    /\ apiLog[2].op = "Inject"
    /\ apiLog[3].op = "Finish"

(***************************************************************************)
(* Properties of the adapters (SpecAdapter)                                *)
(***************************************************************************)
\* the value Get reads under traceparent from the inbound message
InboundTraceParent == carrierAdapter_Get("consumer", headers, TraceParentKey)

ConsumedLast ==
    /\ Len(apiLog) > 0
    /\ LastApi.op = "CreateKafkaConsumerContext"

\* C15: with the OpenTelemetry tracer registered, CreateKafkaConsumerContext on
\* a message whose first traceparent is well formed returns a context whose
\* Span, read by SpanFromContext, reports the second field of that
\* traceparent as its TraceID; for the sample value that is
\* 4bf92f3577b34da6a3ce929d0e0e4736.
C15_ConsumerReportsInboundTraceID ==
    (globalTracer = "otelTracer" /\ ConsumedLast /\ WellFormed(InboundTraceParent)) =>
        LET active == SpanFromContext(LastApi.out)
        IN  /\ active # NoSpan
            /\ Span_TraceID(spans[active]) = InboundTraceParent[2]

\* C16: with a tracer registered, CreateKafkaConsumerContext returns for every
\* inbound message a non-nil context that carries the span it started, whose
\* trace id is usable: under the OpenTelemetry tracer that of the inbound
\* traceparent when it is well formed, a newly drawn one otherwise.
C16_ConsumerContextUsable ==
    (globalTracer # Nil /\ ConsumedLast) =>
        /\ LastApi.out # NilCtx
        /\ LastApi.span # NoSpan
        /\ globalTracer = "otelTracer" =>
              spans[LastApi.span].traceID =
                  IF WellFormed(InboundTraceParent) THEN InboundTraceParent[2]
                  ELSE GenTraceID(LastApi.span)
        /\ SpanFromContext(LastApi.out) = LastApi.span
        /\ Span_TraceID(spans[LastApi.span]) # ""

\* C17: with no tracer registered InjectKafkaProducerHeaders returns the
\* context it was given, leaves msg.Headers as they were and starts no span.
C17_NoTracerNoEffect ==
    [][(/\ globalTracer = Nil
        /\ Len(apiLog') = Len(apiLog) + 1
        /\ apiLog'[Len(apiLog')].op = "InjectKafkaProducerHeaders") =>
          /\ apiLog'[Len(apiLog')].out = apiLog'[Len(apiLog')].in
          /\ apiLog'[Len(apiLog')].span = NoSpan
          /\ headers' = headers
          /\ spans' = spans]_vars

\* InjectKafkaProducerHeaders ran with no tracer registered on a message that
\* has headers
C17_Witness ==
    /\ globalTracer = Nil
    /\ Len(apiLog) > 0
    /\ LastApi.op = "InjectKafkaProducerHeaders"
    /\ Len(headers) > 0

\* the traceparent the registered tracer's Inject writes for span i
WrittenFor(i) ==
    IF globalTracer = "otelTracer"
    THEN <<"00", spans[i].traceID, spans[i].spanID, "01">>
    ELSE MockTraceParent

\* C18: with a tracer registered whose Inject writes traceparent, after one or
\* more InjectKafkaProducerHeaders calls on a message that held at most one
\* traceparent entry, msg.Headers holds exactly one, non-empty and written by
\* the last call, and every other earlier entry keeps position and value.
C18_OneTraceParentAfterInjects ==
    (/\ globalTracer \in {"otelTracer", "mockTracer"}
     /\ carrierKind = "producer"
     /\ Len(apiLog) >= 1
     /\ Count(headers0, TraceParentKey) <= 1) =>
        /\ Count(headers, TraceParentKey) = 1
        /\ \A i \in 1..Len(headers) :
              headers[i].Key = TraceParentKey =>
                  /\ headers[i].Value = WrittenFor(LastApi.span)
                  /\ headers[i].Value # EmptyValue /\ Len(headers[i].Value) > 0
        /\ Len(headers) = Len(headers0) + (IF Count(headers0, TraceParentKey) = 0 THEN 1 ELSE 0)
        /\ \A i \in 1..Len(headers0) :
              IF headers0[i].Key = TraceParentKey
              THEN headers[i].Key = TraceParentKey
              ELSE headers[i] = headers0[i]

\* two calls under the OpenTelemetry tracer wrote different values over a
\* traceparent entry that stood behind another header from the start
C18_Witness ==
    /\ globalTracer = "otelTracer"
    /\ carrierKind = "producer"
    /\ Len(apiLog) >= 2
    /\ Len(headers0) = 2 /\ headers0[2].Key = TraceParentKey
    /\ WrittenFor(apiLog[1].span) # WrittenFor(LastApi.span)
    /\ headers[2].Value # headers0[2].Value

\* C19: when the tracer's Inject returns an error, InjectKafkaProducerHeaders
\* still returns the context of the span it started, the span tagged with
\* kafka.topic and finished; RoundTrip still hands the request, with the
\* span's context, to the base transport and returns its answer.
C19_InjectErrorNotFatal ==
    \A i \in 1..Len(apiLog) :
        LET e == apiLog[i]
        IN  e.injectErr # NoErr =>
              /\ e.span # NoSpan
              /\ e.out = Tracer_StartSpan(globalTracer, e.in, "", e.span).ctx
              /\ spans[e.span].calls[Len(spans[e.span].calls)] = <<"Finish", "">>
              /\ e.op = "InjectKafkaProducerHeaders" =>
                    /\ e.err = NoErr
                    /\ \E c \in 1..Len(spans[e.span].calls) :
                          spans[e.span].calls[c] = <<"SetTag", "kafka.topic">>
              /\ e.op = "RoundTrip" =>
                    /\ e.forwarded
                    /\ \/ e.err = NoErr /\ e.ret \in BaseResults
                       \/ e.err \in BaseResults /\ e.ret = ""

\* InjectKafkaProducerHeaders ran under a tracer whose Inject failed
C19_Witness ==
    /\ Len(apiLog) > 0
    /\ LastApi.op = "InjectKafkaProducerHeaders"
    /\ LastApi.injectErr = ErrInject
    /\ headers = headers0

(***************************************************************************)
(* Properties of the context helpers (SpecContext)                         *)
(***************************************************************************)
\* C21: SpanFromContext(ContextWithSpan(ctx, s)) is s, also when ctx already
\* had a span attached; a context that never had one reads as the nil Span;
\* attaching to ctx changes neither what ctx itself reads as nor the other
\* values ctx holds.
C21_AttachThenRead ==
    \A i \in 1..Len(apiLog) :
        LET e == apiLog[i]
        IN  /\ e.op = "ContextWithSpan" =>
                  /\ SpanFromContext(e.out) = e.span
                  /\ e.out.sc = e.in.sc
                  /\ e.in \in ctxs
                  /\ \A j \in (i + 1)..Len(apiLog) :
                        (apiLog[j].op = "SpanFromContext" /\ apiLog[j].in = e.out)
                            => apiLog[j].span = e.span
            /\ (e.op = "SpanFromContext" /\ e.in \in {Background, StartedCtx}) =>
                  e.span = NoSpan
            /\ e.op = "SpanFromContext" =>
                  \A j \in (i + 1)..Len(apiLog) :
                      (apiLog[j].op = "SpanFromContext" /\ apiLog[j].in = e.in)
                          => apiLog[j].span = e.span

\* a span was attached, a second one was attached to the resulting context,
\* and that context was read
C21_Witness ==
    /\ Len(apiLog) = 3
    /\ apiLog[1].op = "ContextWithSpan" /\ apiLog[1].span # NoSpan
    /\ apiLog[2].op = "ContextWithSpan" /\ apiLog[2].in = apiLog[1].out
    /\ apiLog[2].span \notin {NoSpan, apiLog[1].span}
    /\ apiLog[3].op = "SpanFromContext" /\ apiLog[3].in = apiLog[2].out
    /\ apiLog[3].span = apiLog[2].span


(***************************************************************************)
(* Properties of the registry under concurrent callers (SpecLock)          *)
(***************************************************************************)
IsRead(p) == procs[p].op \in {"GetTracer", "GetSafeTracer"}

\* the value of the registry after k stores have taken effect
Stored(k) == IF k = 0 THEN Nil ELSE callLog[k].val

\* what a single register may answer to the read of goroutine p: the value
\* of the last store that took effect before the call (nil when there is
\* none), or the value of a store that took effect during the call
Answers(p) == {Stored(k) : k \in procs[p].from..procs[p].upto}

ReadsAnswered ==
    \A p \in Procs :
        (IsRead(p) /\ At(p, "done")) =>
            /\ procs[p].op = "GetTracer" => Returned(p) \in Answers(p)
            /\ procs[p].op = "GetSafeTracer" =>
                  Returned(p) \in {IF a = Nil THEN NoOpTracer ELSE a : a \in Answers(p)}

\* a writer between Lock and Unlock is alone, a reader between RLock and
\* RUnlock shares the lock with readers only
WriterAlone ==
    \A p \in Procs :
        /\ procs[p].pc \in {"Store", "Unlock"} => mu.w = p /\ mu.readers = {}
        /\ procs[p].pc \in {"Load", "RUnlock"} =>
              /\ p \in mu.readers
              /\ \A q \in Procs : procs[q].pc \notin {"Store", "Unlock"}

\* C22: under every interleaving of RegisterTracer, GetTracer and
\* GetSafeTracer calls the registry answers as one register does: a read
\* returns the value of the last RegisterTracer that took effect before it
\* was called (nil when there is none) or of one that took effect while it
\* ran, a writer is alone while it stores, and every call that has started
\* returns.
C22_LinearizableRegister ==
    /\ [](ReadsAnswered /\ WriterAlone)
    /\ \A p \in Procs : (~At(p, "idle")) ~> At(p, "done")

\* C22 witness: RegisterTracer(t) has returned and two readers called after
\* it are inside the read lock together, both holding t.
C22_Witness ==
    \E w \in Procs :
        /\ At(w, "done") /\ procs[w].op = "RegisterTracer" /\ procs[w].arg # Nil
        /\ Cardinality(mu.readers) = 2
        /\ \A p \in mu.readers :
              /\ At(p, "RUnlock")
              /\ w \in procs[p].after
              /\ procs[p].val = procs[w].arg


(***************************************************************************)
(* Properties of the trace id providers (SpecProvider)                     *)
(***************************************************************************)
\* C23: for the context that StartSpan of the OpenTelemetry tracer returned,
\* GetTraceID of either provider built on that tracer returns the trace id
\* of the started span, which is not empty.
C23_GetTraceIDOfStartedSpan ==
    \A i, j \in 1..Len(apiLog) :
        (/\ i < j
         /\ globalTracer = "otelTracer"
         /\ apiLog[i].op = "StartSpan"
         /\ apiLog[j].op = "GetTraceID"
         /\ apiLog[j].in = apiLog[i].out
         /\ apiLog[j].out.tracer = "otelTracer") =>
            /\ apiLog[j].ret = Span_TraceID(spans[apiLog[i].span])
            /\ apiLog[j].ret # ""


(***************************************************************************)
(* Properties of the HTTP carriers (SpecHTTPCarrier)                       *)
(***************************************************************************)
\* the entries of hs under the name of key, whatever the case of key
Under(hs, key) ==
    {i \in 1..Len(hs) : hs[i].Key = CanonicalMIMEHeaderKey(key)}

\* the value of the first entry of hs under the name of key
FirstUnder(hs, key) ==
    hs[CHOOSE i \in Under(hs, key) : \A j \in Under(hs, key) : i <= j].Value

SetThenGet(i) ==
    /\ i + 1 <= Len(opLog)
    /\ opLog[i].op = "Set"
    /\ opLog[i + 1].op = "Get"
    /\ CanonicalMIMEHeaderKey(opLog[i].key) = CanonicalMIMEHeaderKey(opLog[i + 1].key)

\* C24, as stated: on either HTTP carrier Set(k, v) followed by Get(k') for
\* a case variant k' of k returns (v, found) and leaves exactly one value
\* under the name.
C24_SetThenGetEitherSide ==
    \A i \in 1..Len(opLog) :
        (SetThenGet(i) /\ i + 1 = Len(opLog)) =>
            /\ opLog[i + 1].ret = opLog[i].value
            /\ opLog[i + 1].found
            /\ Cardinality(Under(headers, opLog[i].key)) = 1

\* C24, amended: on the client side Set(k, v) followed by Get(k') for a case
\* variant k' of k returns (v, found) and leaves exactly one value under the
\* name; on the server side Set changes nothing; on both sides Get returns
\* the first value under the name, found on the server side when that value
\* is not empty, and leaves the headers as they were.
C24_ClientReplacesServerReadOnly ==
    \A i \in 1..Len(opLog) :
        /\ (carrierKind = "http" /\ SetThenGet(i) /\ i + 1 = Len(opLog)) =>
              /\ opLog[i + 1].ret = opLog[i].value
              /\ opLog[i + 1].found
              /\ Cardinality(Under(headers, opLog[i].key)) = 1
        /\ (carrierKind = "server" /\ opLog[i].op = "Set") => headers = headers0
        /\ (opLog[i].op = "Get" /\ i = Len(opLog)) =>
              /\ Under(headers, opLog[i].key) # {} =>
                    opLog[i].ret = FirstUnder(headers, opLog[i].key)
              /\ opLog[i].found =
                    IF carrierKind = "server"
                    THEN /\ Under(headers, opLog[i].key) # {}
                         /\ FirstUnder(headers, opLog[i].key) # EmptyValue
                    ELSE Under(headers, opLog[i].key) # {}

\* C24 witness: on the client side, over headers that held the name already,
\* Set under one spelling was followed by Get under another.
C24_Witness ==
    /\ carrierKind = "http"
    /\ Len(opLog) = 2
    /\ SetThenGet(1)
    /\ opLog[1].key # opLog[2].key
    /\ Under(headers0, opLog[1].key) # {}
    /\ opLog[2].found /\ opLog[2].ret = opLog[1].value


(***************************************************************************)
(* Properties of TracingRoundTripper (SpecAdapter)                         *)
(***************************************************************************)
\* C25: every RoundTrip hands the request to the base transport exactly
\* once and returns what that call answered, the response with no error or
\* the error with no response, whether or not a tracer is registered and
\* whether or not the injection failed; with no tracer registered the base
\* transport gets the caller's context and the headers as they were.
C25_BaseCalledOnce ==
    [][LET e == apiLog'[Len(apiLog')]
       IN  (Len(apiLog') = Len(apiLog) + 1 /\ e.op = "RoundTrip") =>
               /\ Len(e.baseCalls) = 1
               /\ LET answer == e.baseCalls[1].answer
                  IN  IF IsBaseError(answer)
                      THEN e.err = answer /\ e.ret = ""
                      ELSE e.ret = answer /\ e.err = NoErr
               /\ globalTracer = Nil =>
                     /\ e.baseCalls[1].ctx = e.in
                     /\ e.baseCalls[1].headers = headers
                     /\ headers' = headers]_vars

\* C25 witness: a RoundTrip whose injection failed and whose base transport
\* failed has returned the transport's error.
C25_Witness ==
    /\ apiLog # <<>>
    /\ LastApi.op = "RoundTrip"
    /\ LastApi.injectErr = ErrInject
    /\ Len(LastApi.baseCalls) = 1
    /\ IsBaseError(LastApi.baseCalls[1].answer)
    /\ LastApi.err = LastApi.baseCalls[1].answer


Traces == {i \in 1..Len(apiLog) : apiLog[i].op = "TraceHTTPRequest"}

Times(events, ev) == Cardinality({k \in 1..Len(events) : events[k] = ev})

\* C27: every TraceHTTPRequest calls next exactly once; with no tracer
\* registered it does nothing else, with a tracer registered it goes through
\* Extract, StartSpan("<method> <url>"), SetSpanContext, next, Finish in
\* that order, and the handler's request holds the context of the entry
\* span while next runs.
C27_NextOnceInOrder ==
    \A i \in Traces :
        LET e == apiLog[i]
        IN  /\ Times(e.events, "next") = 1
            /\ IF globalTracer = Nil
               THEN e.events = <<"next">> /\ e.span = NoSpan /\ e.nextSaw = e.in
               ELSE /\ e.events = <<"Extract", "StartSpan", "SetSpanContext", "next", "Finish">>
                    /\ spans[e.span].impl = "OTELSpan" => spans[e.span].name = "GET /path"
                    /\ e.nextSaw = e.out

\* C29: a TraceHTTPRequest whose Extract returned an error still starts the
\* entry span, from the caller's own context, and calls next with the span's
\* context set on the handler; the error stops nothing.
C29_ExtractErrorStartsFresh ==
    \A i \in Traces :
        LET e == apiLog[i]
        IN  e.extractErr # NoErr =>
                /\ ~e.panic
                /\ Times(e.events, "next") = 1
                /\ e.span # NoSpan
                /\ e.nextSaw # NilCtx
                /\ e.nextSaw = Tracer_StartSpan(globalTracer, e.in, "GET /path", e.span).ctx

FinishCalls(sp) == {k \in 1..Len(sp.calls) : sp.calls[k][1] = "Finish"}

\* C28: on every path that does not panic, the span an adapter started is
\* finished exactly once when the adapter returns, after its tags and its
\* error were set, and in TraceHTTPRequest after next has returned; with no
\* tracer registered no span is started.
C28_SpansFinishedOnce ==
    \A i \in 1..Len(apiLog) :
        LET e == apiLog[i]
        IN  /\ globalTracer = Nil => e.span = NoSpan
            /\ (e.span # NoSpan /\ (e.op = "TraceHTTPRequest" => ~e.panic)) =>
                  /\ FinishCalls(spans[e.span]) = {Len(spans[e.span].calls)}
                  /\ e.op = "TraceHTTPRequest" =>
                        \E k \in 1..Len(e.events) :
                            /\ e.events[k] = "next"
                            /\ \A j \in 1..k : e.events[j] # "Finish"
                            /\ \E j \in (k + 1)..Len(e.events) : e.events[j] = "Finish"

\* C28 witness: a RoundTrip whose base transport failed has returned with
\* its span tagged, marked with the error and then finished.
C28_Witness ==
    /\ apiLog # <<>>
    /\ LastApi.op = "RoundTrip"
    /\ IsBaseError(LastApi.err)
    /\ LastApi.span # NoSpan
    /\ spans[LastApi.span].impl = "OTELSpan"
    /\ spans[LastApi.span].ended
    /\ \E k \in 1..Len(spans[LastApi.span].calls) :
          /\ spans[LastApi.span].calls[k][1] = "SetError"
          /\ k < Len(spans[LastApi.span].calls)

====
